---- MODULE Spec2Model ----
(***************************************************************************)
(* A model of hatrack's wait-free queue (src/src/queue/queue.c) on top of  *)
(* the epoch-based memory manager (src/mmm.h), and of the manager's commit *)
(* protocol (Spec for the queue, MmmSpec for the commit protocol).         *)
(*                                                                         *)
(* Every atomic access to shared memory in queue_enqueue / queue_dequeue   *)
(* is one action; thread-local computation is folded into the access that  *)
(* follows it.  Segments live in a pool indexed 1..MaxSegs; the allocator  *)
(* hands out the lowest unused index and never reuses one.  An access to a *)
(* freed segment raises `uaf` and proceeds on the stale contents; a cell   *)
(* access past the end of a segment raises `oob` and its CAS may go either *)
(* way.                                                                    *)
(***************************************************************************)
EXTENDS Integers, Sequences, FiniteSets, TLC

VARIABLES
    cfg,               \* the run's parameters: size_log, per-thread call budgets
    seg,               \* the heap of mmm allocations, by pool index: the queue's
                       \* segments, or the records of the commit protocol
    segments,          \* self->segments: the (enqueue_segment, dequeue_segment) pair
    help_needed,       \* self->help_needed
    len,               \* self->len
    default_segment_size, \* self->default_segment_size
    mmm_epoch,         \* the global epoch
    mmm_reservations,  \* one slot per thread, as shared memory holds it
    store_buffer,      \* per thread: its stores to its slot that are not yet in
                       \* shared memory, oldest first
    mmm_retire_list,   \* per thread: retired segments, most recent first
    mmm_retire_ctr,    \* per thread: retires since the last scan
    pc,                \* per thread: position in the running call
    loc,               \* per thread: the C locals of the running call
    ops,               \* per thread: the calls made so far, with their results
    uaf,               \* some thread touched a freed segment
    oob,               \* some thread addressed a cell past a segment's end
    cleaned,           \* queue_cleanup has run
    store_current      \* the hash table's store_current; NULL when the run has no table

vars == <<cfg, seg, segments, help_needed, len, default_segment_size, mmm_epoch,
          mmm_reservations, store_buffer, mmm_retire_list, mmm_retire_ctr, pc, loc, ops,
          uaf, oob, cleaned, store_current>>

-----------------------------------------------------------------------------
(* Bounds of the model *)

\* size of the segment pool
MaxSegs == 7
\* the epoch counter is capped here (mmm_clean_up_before_exit stops advancing it)
MaxEpoch == 3
\* calls of the single thread in the sequential runs
MaxSeqEnq == 5
\* enqueue calls of the long producer in the concurrent runs
MaxProdEnq == 2

Threads == {1, 2, 3}

-----------------------------------------------------------------------------
(* Program constants *)

NULL == 0

\* 0xffffffffffffffff in mmm.h; here the largest value of a 32-bit integer, which
\* like the source's is above every epoch a run reaches
MMM_EPOCH_UNRESERVED == 2147483647
MMM_EPOCH_FIRST == 1
MMM_EPOCH_MAX == 2147483647

\* scan every 2^k retires: a build-time setting (#ifndef) whose default is 5;
\* this is the build with 0, where every retire is followed by a scan
MMM_RETIRE_FREQ_LOG == 0
MMM_RETIRE_FREQ == 2 ^ MMM_RETIRE_FREQ_LOG

\* the settings of queue.h, taken small: segments of 2 or 4 cells to start with,
\* help requested from step 2 on
QSIZE_LOG_MIN == 1
QSIZE_LOG_MAX == 2
QSIZE_LOG_DEFAULT == 1
QUEUE_HELP_VALUE == 2

QUEUE_EMPTY == "EMPTY"
QUEUE_USED == "USED"
QUEUE_TOOSLOW == "TOOSLOW"

empty_cell == [item |-> NULL, state |-> QUEUE_EMPTY]
too_slow_marker == [item |-> NULL, state |-> QUEUE_TOOSLOW]

-----------------------------------------------------------------------------
(* The heap *)

NoSegment == [st |-> "none", size |-> 0, enqueue_index |-> 0, dequeue_index |-> 0,
              next |-> NULL, cells |-> <<>>, retire_epoch |-> 0, frees |-> 0,
              guards |-> {}]

\* the allocator: the lowest pool index never handed out
FreshSeg == CHOOSE s \in 1..MaxSegs : seg[s].st = "none" /\ \A r \in 1..(s-1) : seg[r].st # "none"
HaveFresh == \E s \in 1..MaxSegs : seg[s].st = "none"

\* queue_new_segment: a zeroed mmm_alloc_committed region with size set
queue_new_segment(num_cells) ==
    [st |-> "live", size |-> num_cells, enqueue_index |-> 0, dequeue_index |-> 0,
     next |-> NULL, cells |-> [i \in 0..(num_cells - 1) |-> empty_cell],
     retire_epoch |-> 0, frees |-> 0, guards |-> {}]

\* free(): the region is gone; the model keeps its last contents
Freed(r) == [r EXCEPT !.st = "freed", !.frees = r.frees + 1]

\* bookkeeping: guards is the set of threads whose reservation, published before
\* the segment was retired, is still standing; a thread leaves it at mmm_end_op
Unguard(t) == [s \in 1..MaxSegs |-> [seg[s] EXCEPT !.guards = @ \ {t}]]

\* an access to segment s reaches freed memory
Touch(s) == seg[s].st = "freed"

-----------------------------------------------------------------------------
(* queue_init_size *)

\* faulty variant of SegCells: the upper end of the range is not enforced
SegCellsUnbounded(size_log) ==
    IF size_log = 0 THEN 2 ^ QSIZE_LOG_DEFAULT
    ELSE IF size_log < QSIZE_LOG_MIN THEN 0
    ELSE 2 ^ size_log

\* 1 << size_log cells, after defaulting and validation; 0 stands for abort()
SegCells(size_log) ==
    IF size_log = 0 THEN 2 ^ QSIZE_LOG_DEFAULT
    ELSE IF size_log < QSIZE_LOG_MIN \/ size_log > QSIZE_LOG_MAX THEN 0
    ELSE 2 ^ size_log

\* the C locals of a queue call; losses is bookkeeping: the cell CASes the
\* running enqueue has failed since it last changed segment
Loc0 == [segments |-> [enq |-> NULL, deq |-> NULL],
         candidate_segments |-> [enq |-> NULL, deq |-> NULL],
         segment |-> NULL, end_size |-> 0, cur_ix |-> 0, step |-> 0,
         need_help |-> FALSE, need_to_enqueue |-> FALSE, new_segment |-> NULL,
         new_size |-> 0, head_ix |-> 0, ret |-> NULL, item |-> NULL,
         read_epoch |-> 0, scan_i |-> 0, lowest |-> 0, cont |-> "idle",
         losses |-> 0]

\* per-thread call budgets of a run
Budget(e1, d1, e2, d2, e3, d3) ==
    [enq |-> (1 :> e1 @@ 2 :> e2 @@ 3 :> e3), deq |-> (1 :> d1 @@ 2 :> d2 @@ 3 :> d3)]

\* one thread alone, any order of calls, every segment size
SeqRuns ==
    { [size_log |-> sl, b |-> Budget(MaxSeqEnq, MaxSeqEnq + 1, 0, 0, 0, 0),
       late |-> {}, exits |-> {1}, deq_first |-> {}] : sl \in {0, 1, 2} }

\* two producers side by side, then (after the join) one consumer drains
JoinRuns ==
    { [size_log |-> 1, b |-> Budget(MaxProdEnq + 1, 0, MaxProdEnq, 0, 0, 2 * MaxProdEnq + 2),
       late |-> {3}, exits |-> {}, deq_first |-> {}] }

\* a producer against a thread that dequeues, then enqueues; then a drain
MixedRuns ==
    { [size_log |-> 1, b |-> Budget(MaxProdEnq, 0, 2, 2, 0, MaxProdEnq + 1),
       late |-> {3}, exits |-> {}, deq_first |-> {2}] }

\* a producer, a consumer that exits afterwards, and a second producer
ExitRuns ==
    { [size_log |-> 1, b |-> Budget(1, 0, 0, 1, 1, 0),
       late |-> {}, exits |-> {2}, deq_first |-> {}] }

\* a producer against two consumers
ConsumerRuns ==
    { [size_log |-> 1, b |-> Budget(1, 0, 0, 1, 0, 1),
       late |-> {}, exits |-> {}, deq_first |-> {}] }

Configs == SeqRuns \cup JoinRuns \cup MixedRuns \cup ExitRuns \cup ConsumerRuns

Init ==
    /\ cfg \in Configs
    /\ default_segment_size = SegCells(cfg.size_log)
    /\ seg = [s \in 1..MaxSegs |->
                IF s = 1 THEN queue_new_segment(SegCells(cfg.size_log)) ELSE NoSegment]
    /\ segments = [enq |-> 1, deq |-> 1]
    /\ help_needed = 0
    /\ len = 0
    /\ mmm_epoch = MMM_EPOCH_FIRST
    /\ mmm_reservations = [t \in Threads |-> MMM_EPOCH_UNRESERVED]
    /\ store_buffer = [t \in Threads |-> <<>>]
    /\ mmm_retire_list = [t \in Threads |-> <<>>]
    /\ mmm_retire_ctr = [t \in Threads |-> 0]
    /\ pc = [t \in Threads |-> "idle"]
    /\ loc = [t \in Threads |-> Loc0]
    /\ ops = [t \in Threads |-> <<>>]
    /\ uaf = FALSE
    /\ oob = FALSE
    /\ cleaned = FALSE
    /\ store_current = NULL

-----------------------------------------------------------------------------
(* The record of calls, kept to state what callers observe *)

LastOp(t) == ops[t][Len(ops[t])]
DoneCount(t) ==
    IF Len(ops[t]) > 0 /\ ~LastOp(t).done THEN Len(ops[t]) - 1 ELSE Len(ops[t])
\* how many calls of each thread have returned
Now == [u \in Threads |-> DoneCount(u)]
NumKind(t, k) == Cardinality({i \in 1..Len(ops[t]) : ops[t][i].kind = k})

\* the running call of t returns (item, found)
Return(t, item, found) ==
    [ops EXCEPT ![t][Len(ops[t])] = [@ EXCEPT !.item = item, !.found = found, !.done = TRUE]]

\* a thread is through: it used its budget, or it ran mmm_clean_up_before_exit
Finished(t) ==
    IF t \in cfg.exits THEN pc[t] = "exited"
    ELSE /\ pc[t] = "idle"
         /\ NumKind(t, "enq") = cfg.b.enq[t]
         /\ NumKind(t, "deq") = cfg.b.deq[t]

MayStart(t) ==
    /\ pc[t] = "idle"
    /\ ~cleaned
    /\ t \in cfg.late => \A u \in Threads \ cfg.late : Finished(u)

-----------------------------------------------------------------------------
(* mmm_start_basic_op / mmm_end_op *)

\* the caller of queue_enqueue: step = 1, then the epoch load of mmm_start_basic_op
StartEnqueue(t) ==
    /\ MayStart(t)
    /\ NumKind(t, "enq") < cfg.b.enq[t]
    /\ t \in cfg.deq_first => NumKind(t, "deq") = cfg.b.deq[t]
    /\ ops' = [ops EXCEPT ![t] = Append(@, [kind |-> "enq",
                                            item |-> 10 * t + NumKind(t, "enq") + 1,
                                            found |-> TRUE, pr |-> Now, done |-> FALSE])]
    /\ loc' = [loc EXCEPT ![t] = [Loc0 EXCEPT !.step = 1,
                                              !.item = 10 * t + NumKind(t, "enq") + 1,
                                              !.read_epoch = mmm_epoch]]
    /\ pc' = [pc EXCEPT ![t] = "e_reserve"]
    /\ UNCHANGED <<cfg, store_current, store_buffer, seg, segments, help_needed, len, default_segment_size, mmm_epoch,
                   mmm_reservations, mmm_retire_list, mmm_retire_ctr, uaf, oob, cleaned>>

\* the caller of queue_dequeue: the epoch load of mmm_start_basic_op
StartDequeue(t) ==
    /\ MayStart(t)
    /\ NumKind(t, "deq") < cfg.b.deq[t]
    /\ ops' = [ops EXCEPT ![t] = Append(@, [kind |-> "deq", item |-> NULL,
                                            found |-> FALSE, pr |-> Now, done |-> FALSE])]
    /\ loc' = [loc EXCEPT ![t] = [Loc0 EXCEPT !.read_epoch = mmm_epoch]]
    /\ pc' = [pc EXCEPT ![t] = "d_reserve"]
    /\ UNCHANGED <<cfg, store_current, store_buffer, seg, segments, help_needed, len, default_segment_size, mmm_epoch,
                   mmm_reservations, mmm_retire_list, mmm_retire_ctr, uaf, oob, cleaned>>

\* mmm_start_basic_op: the store of the loaded epoch into the caller's slot
Reserve(t) ==
    /\ pc[t] \in {"e_reserve", "d_reserve"}
    /\ mmm_reservations' = [mmm_reservations EXCEPT ![t] = loc[t].read_epoch]
    /\ pc' = [pc EXCEPT ![t] = IF pc[t] = "e_reserve" THEN "e_segments" ELSE "d_segments"]
    /\ UNCHANGED <<cfg, store_current, store_buffer, seg, segments, help_needed, len, default_segment_size, mmm_epoch,
                   mmm_retire_list, mmm_retire_ctr, loc, ops, uaf, oob, cleaned>>

\* faulty variant of mmm_end_op: every slot is cleared, not only the caller's
mmm_end_op_all(t) == [u \in Threads |-> MMM_EPOCH_UNRESERVED]

\* mmm_end_op
mmm_end_op(t) == [mmm_reservations EXCEPT ![t] = MMM_EPOCH_UNRESERVED]

-----------------------------------------------------------------------------
(* queue_enqueue *)

\* faulty variant of LoopPc: the loop test lets cur_ix = end_size through
LoopPcInclusive(cur_ix, end_size) == IF cur_ix <= end_size THEN "e_cell_cas" ELSE "e_full"

\* while (cur_ix < end_size)
LoopPc(cur_ix, end_size) == IF cur_ix < end_size THEN "e_cell_cas" ELSE "e_full"

\* where an enqueue goes once its item is in a cell
AfterEnq(need_help) == IF need_help THEN "e_sub_help" ELSE "e_end_op"

\* step <<= 1
NextStep(step) == step * 2

EnqReadSegments(t) ==
    /\ pc[t] = "e_segments"
    /\ loc' = [loc EXCEPT ![t].need_help = FALSE,
                          ![t].segments = segments,
                          ![t].segment = segments.enq]
    /\ pc' = [pc EXCEPT ![t] = "e_first_faa"]
    /\ UNCHANGED <<cfg, store_current, store_buffer, seg, segments, help_needed, len, default_segment_size, mmm_epoch,
                   mmm_reservations, mmm_retire_list, mmm_retire_ctr, ops, uaf, oob, cleaned>>

\* end_size = segment->size; cur_ix = atomic_fetch_add(&segment->enqueue_index, step)
EnqFirstFetchAdd(t) ==
    LET s == loc[t].segment IN
    /\ pc[t] = "e_first_faa"
    /\ loc' = [loc EXCEPT ![t].end_size = seg[s].size,
                          ![t].cur_ix = seg[s].enqueue_index]
    /\ seg' = [seg EXCEPT ![s].enqueue_index = @ + loc[t].step]
    /\ pc' = [pc EXCEPT ![t] = LoopPc(seg[s].enqueue_index, seg[s].size)]
    /\ uaf' = (uaf \/ Touch(s))
    /\ UNCHANGED <<cfg, store_current, store_buffer, segments, help_needed, len, default_segment_size, mmm_epoch,
                   mmm_reservations, mmm_retire_list, mmm_retire_ctr, ops, oob, cleaned>>

\* cur_ix = atomic_fetch_add(&segment->enqueue_index, step), end_size as it was
EnqFetchAdd(t) ==
    LET s == loc[t].segment IN
    /\ pc[t] = "e_faa"
    /\ loc' = [loc EXCEPT ![t].cur_ix = seg[s].enqueue_index]
    /\ seg' = [seg EXCEPT ![s].enqueue_index = @ + loc[t].step]
    /\ pc' = [pc EXCEPT ![t] = LoopPc(seg[s].enqueue_index, loc[t].end_size)]
    /\ uaf' = (uaf \/ Touch(s))
    /\ UNCHANGED <<cfg, store_current, store_buffer, segments, help_needed, len, default_segment_size, mmm_epoch,
                   mmm_reservations, mmm_retire_list, mmm_retire_ctr, ops, oob, cleaned>>

\* CAS(&segment->cells[cur_ix], &expected, candidate) with expected = empty_cell
EnqCellCAS(t) ==
    LET s == loc[t].segment
        i == loc[t].cur_ix
        candidate == [item |-> loc[t].item, state |-> QUEUE_USED]
    IN
    /\ pc[t] = "e_cell_cas"
    /\ IF i < seg[s].size
       THEN /\ IF seg[s].cells[i] = empty_cell
               THEN /\ seg' = [seg EXCEPT ![s].cells[i] = candidate]
                    /\ pc' = [pc EXCEPT ![t] = AfterEnq(loc[t].need_help)]
                    /\ loc' = loc
               ELSE /\ seg' = seg
                    /\ pc' = [pc EXCEPT ![t] = "e_faa"]
                    /\ loc' = [loc EXCEPT ![t].step = NextStep(@), ![t].losses = @ + 1]
            /\ oob' = oob
       ELSE \* the cell lies past the segment's allocation: the CAS may go either way
            /\ oob' = TRUE
            /\ seg' = seg
            /\ \E hit \in BOOLEAN :
                 IF hit
                 THEN /\ pc' = [pc EXCEPT ![t] = AfterEnq(loc[t].need_help)]
                      /\ loc' = loc
                 ELSE /\ pc' = [pc EXCEPT ![t] = "e_faa"]
                      /\ loc' = [loc EXCEPT ![t].step = NextStep(@), ![t].losses = @ + 1]
    /\ uaf' = (uaf \/ Touch(s))
    /\ UNCHANGED <<cfg, store_current, store_buffer, segments, help_needed, len, default_segment_size, mmm_epoch,
                   mmm_reservations, mmm_retire_list, mmm_retire_ctr, ops, cleaned>>

\* faulty variant of WantsHelp: need_help is not looked at, so a call asks again
WantsHelpAgain(t) == loc[t].step >= QUEUE_HELP_VALUE

\* if (step >= QUEUE_HELP_VALUE && !need_help)
WantsHelp(t) == loc[t].step >= QUEUE_HELP_VALUE /\ ~loc[t].need_help

\* need_help = true; atomic_fetch_add(&self->help_needed, 1)
EnqRequestHelp(t) ==
    /\ pc[t] = "e_full"
    /\ WantsHelp(t)
    /\ loc' = [loc EXCEPT ![t].need_help = TRUE]
    /\ help_needed' = help_needed + 1
    /\ pc' = [pc EXCEPT ![t] = "e_reread_help"]
    /\ UNCHANGED <<cfg, store_current, store_buffer, seg, segments, len, default_segment_size, mmm_epoch,
                   mmm_reservations, mmm_retire_list, mmm_retire_ctr, ops, uaf, oob, cleaned>>

\* the helped branch: re-read self->segments; new_size = segment->size << 1
EnqRereadHelped(t) ==
    LET s == loc[t].segment IN
    /\ pc[t] = "e_reread_help"
    /\ IF segments.enq # s
       THEN /\ loc' = [loc EXCEPT ![t].segments = segments, ![t].segment = segments.enq,
                                  ![t].losses = 0]
            /\ pc' = [pc EXCEPT ![t] = "e_faa"]
            /\ uaf' = uaf
       ELSE /\ loc' = [loc EXCEPT ![t].segments = segments, ![t].new_size = seg[s].size * 2]
            /\ pc' = [pc EXCEPT ![t] = "e_install"]
            /\ uaf' = (uaf \/ Touch(s))
    /\ UNCHANGED <<cfg, store_current, store_buffer, seg, segments, help_needed, len, default_segment_size, mmm_epoch,
                   mmm_reservations, mmm_retire_list, mmm_retire_ctr, ops, oob, cleaned>>

\* the other branch: re-read self->segments
EnqReread(t) ==
    LET s == loc[t].segment IN
    /\ pc[t] = "e_full"
    /\ ~WantsHelp(t)
    /\ IF segments.enq # s
       THEN /\ loc' = [loc EXCEPT ![t].segments = segments, ![t].segment = segments.enq,
                                  ![t].losses = 0]
            /\ pc' = [pc EXCEPT ![t] = "e_faa"]
       ELSE /\ loc' = [loc EXCEPT ![t].segments = segments]
            /\ pc' = [pc EXCEPT ![t] = "e_read_help"]
    /\ UNCHANGED <<cfg, store_current, store_buffer, seg, segments, help_needed, len, default_segment_size, mmm_epoch,
                   mmm_reservations, mmm_retire_list, mmm_retire_ctr, ops, uaf, oob, cleaned>>

\* faulty variant of NewSize: the successor is doubled whether or not help is needed
NewSizeDoubled(helpers, cur_size, dflt) == cur_size * 2

\* the size of the successor: doubled while anybody needs help, else the default
NewSize(helpers, cur_size, dflt) == IF helpers # 0 THEN cur_size * 2 ELSE dflt

\* if (atomic_read(&self->help_needed)) new_size = ... else ...
EnqReadHelp(t) ==
    LET s == loc[t].segment IN
    /\ pc[t] = "e_read_help"
    /\ loc' = [loc EXCEPT ![t].new_size = NewSize(help_needed, seg[s].size, default_segment_size)]
    /\ pc' = [pc EXCEPT ![t] = "e_install"]
    /\ uaf' = (uaf \/ (help_needed # 0 /\ Touch(s)))
    /\ UNCHANGED <<cfg, store_current, store_buffer, seg, segments, help_needed, len, default_segment_size, mmm_epoch,
                   mmm_reservations, mmm_retire_list, mmm_retire_ctr, ops, oob, cleaned>>

\* faulty variant of NewSuccessor: enqueue_index is left at 0
NewSuccessorUnindexed(new_size, item) ==
    [queue_new_segment(new_size) EXCEPT !.cells[0] = [item |-> item, state |-> QUEUE_USED]]

\* the successor as the enqueuer prepares it: its own item in cell 0, enqueue_index 1
NewSuccessor(new_size, item) ==
    [queue_new_segment(new_size) EXCEPT !.enqueue_index = 1,
                                        !.cells[0] = [item |-> item, state |-> QUEUE_USED]]

\* queue_new_segment, then CAS(&segment->next, NULL, new_segment); the loser frees
EnqInstall(t) ==
    LET s == loc[t].segment
        n == FreshSeg
        fresh == NewSuccessor(loc[t].new_size, loc[t].item)
    IN
    /\ pc[t] = "e_install"
    /\ HaveFresh
    /\ IF seg[s].next = NULL
       THEN /\ seg' = [seg EXCEPT ![s].next = n, ![n] = fresh]
            /\ loc' = [loc EXCEPT ![t].new_segment = n,
                                  ![t].need_to_enqueue = FALSE,
                                  ![t].candidate_segments =
                                      [enq |-> n, deq |-> loc[t].segments.deq]]
       ELSE /\ seg' = [seg EXCEPT ![n] = Freed(fresh)]
            /\ loc' = [loc EXCEPT ![t].new_segment = seg[s].next,
                                  ![t].need_to_enqueue = TRUE,
                                  ![t].candidate_segments =
                                      [enq |-> seg[s].next, deq |-> loc[t].segments.deq]]
    /\ pc' = [pc EXCEPT ![t] = "e_swing"]
    /\ uaf' = (uaf \/ Touch(s))
    /\ UNCHANGED <<cfg, store_current, store_buffer, segments, help_needed, len, default_segment_size, mmm_epoch,
                   mmm_reservations, mmm_retire_list, mmm_retire_ctr, ops, oob, cleaned>>

\* one round of while (!CAS(&self->segments, &segments, candidate_segments))
EnqSwing(t) ==
    LET s == loc[t].segment
        out == IF loc[t].need_to_enqueue THEN "e_faa" ELSE AfterEnq(loc[t].need_help)
    IN
    /\ pc[t] = "e_swing"
    /\ IF segments = loc[t].segments
       THEN /\ segments' = loc[t].candidate_segments
            /\ loc' = [loc EXCEPT ![t].segment =
                          IF loc[t].need_to_enqueue THEN loc[t].new_segment ELSE @,
                                  ![t].losses = IF loc[t].need_to_enqueue THEN 0 ELSE @]
            /\ pc' = [pc EXCEPT ![t] = out]
       ELSE /\ segments' = segments
            /\ IF segments.enq # s
               THEN /\ loc' = [loc EXCEPT ![t].segments = segments,
                                          ![t].segment =
                                     IF loc[t].need_to_enqueue THEN loc[t].new_segment ELSE @,
                                          ![t].losses =
                                     IF loc[t].need_to_enqueue THEN 0 ELSE @]
                    /\ pc' = [pc EXCEPT ![t] = out]
               ELSE /\ loc' = [loc EXCEPT ![t].segments = segments,
                                          ![t].candidate_segments.deq = segments.deq]
                    /\ pc' = pc
    /\ UNCHANGED <<cfg, store_current, store_buffer, seg, help_needed, len, default_segment_size, mmm_epoch,
                   mmm_reservations, mmm_retire_list, mmm_retire_ctr, ops, uaf, oob, cleaned>>

\* if (need_help) atomic_fetch_sub(&self->help_needed, 1)
EnqSubHelp(t) ==
    /\ pc[t] = "e_sub_help"
    /\ help_needed' = help_needed - 1
    /\ pc' = [pc EXCEPT ![t] = "e_end_op"]
    /\ UNCHANGED <<cfg, store_current, store_buffer, seg, segments, len, default_segment_size, mmm_epoch,
                   mmm_reservations, mmm_retire_list, mmm_retire_ctr, loc, ops, uaf, oob,
                   cleaned>>

\* mmm_end_op() on either return path of queue_enqueue
EnqEndOp(t) ==
    /\ pc[t] = "e_end_op"
    /\ mmm_reservations' = mmm_end_op(t)
    /\ seg' = Unguard(t)
    /\ pc' = [pc EXCEPT ![t] = "e_len"]
    /\ UNCHANGED <<cfg, store_current, store_buffer, segments, help_needed, len, default_segment_size, mmm_epoch,
                   mmm_retire_list, mmm_retire_ctr, loc, ops, uaf, oob, cleaned>>

\* atomic_fetch_add(&self->len, 1); return
EnqLen(t) ==
    /\ pc[t] = "e_len"
    /\ len' = len + 1
    /\ ops' = Return(t, loc[t].item, TRUE)
    /\ loc' = [loc EXCEPT ![t] = Loc0]
    /\ pc' = [pc EXCEPT ![t] = "idle"]
    /\ UNCHANGED <<cfg, store_current, store_buffer, seg, segments, help_needed, default_segment_size, mmm_epoch,
                   mmm_reservations, mmm_retire_list, mmm_retire_ctr, uaf, oob, cleaned>>

-----------------------------------------------------------------------------
(* queue_dequeue *)

DeqReadSegments(t) ==
    /\ pc[t] = "d_segments"
    /\ loc' = [loc EXCEPT ![t].segments = segments, ![t].segment = segments.deq]
    /\ pc' = [pc EXCEPT ![t] = "d_read_deq"]
    /\ UNCHANGED <<cfg, store_current, store_buffer, seg, segments, help_needed, len, default_segment_size, mmm_epoch,
                   mmm_reservations, mmm_retire_list, mmm_retire_ctr, ops, uaf, oob, cleaned>>

\* cur_ix = atomic_load(&segment->dequeue_index)
DeqReadDequeueIndex(t) ==
    LET s == loc[t].segment IN
    /\ pc[t] = "d_read_deq"
    /\ loc' = [loc EXCEPT ![t].cur_ix = seg[s].dequeue_index]
    /\ pc' = [pc EXCEPT ![t] = "d_read_enq"]
    /\ uaf' = (uaf \/ Touch(s))
    /\ UNCHANGED <<cfg, store_current, store_buffer, seg, segments, help_needed, len, default_segment_size, mmm_epoch,
                   mmm_reservations, mmm_retire_list, mmm_retire_ctr, ops, oob, cleaned>>

\* faulty variant of AfterIndexLoads: a dequeuer that finds no item looks again
AfterIndexLoadsWaiting(cur_ix, head_ix, size) ==
    IF cur_ix >= size THEN "d_next"
    ELSE IF cur_ix >= head_ix THEN "d_read_deq"
    ELSE "d_faa"

\* faulty variant of AfterIndexLoads: the cell enqueued last is not looked at
AfterIndexLoadsShort(cur_ix, head_ix, size) ==
    IF cur_ix >= size THEN "d_next"
    ELSE IF cur_ix + 1 >= head_ix THEN "d_not_found"
    ELSE "d_faa"

\* what the two index loads decide: leave the segment, report empty, or take a cell
AfterIndexLoads(cur_ix, head_ix, size) ==
    IF cur_ix >= size THEN "d_next"
    ELSE IF cur_ix >= head_ix THEN "d_not_found"
    ELSE "d_faa"

\* head_ix = atomic_load(&segment->enqueue_index), and the two tests on it
DeqReadEnqueueIndex(t) ==
    LET s == loc[t].segment IN
    /\ pc[t] = "d_read_enq"
    /\ loc' = [loc EXCEPT ![t].head_ix = seg[s].enqueue_index]
    /\ pc' = [pc EXCEPT ![t] =
                 AfterIndexLoads(loc[t].cur_ix, seg[s].enqueue_index, seg[s].size)]
    /\ uaf' = (uaf \/ Touch(s))
    /\ UNCHANGED <<cfg, store_current, store_buffer, seg, segments, help_needed, len, default_segment_size, mmm_epoch,
                   mmm_reservations, mmm_retire_list, mmm_retire_ctr, ops, oob, cleaned>>

\* cur_ix = atomic_fetch_add(&segment->dequeue_index, 1)
DeqFetchAdd(t) ==
    LET s == loc[t].segment IN
    /\ pc[t] = "d_faa"
    /\ loc' = [loc EXCEPT ![t].cur_ix = seg[s].dequeue_index]
    /\ seg' = [seg EXCEPT ![s].dequeue_index = @ + 1]
    /\ pc' = [pc EXCEPT ![t] =
                 IF seg[s].dequeue_index >= seg[s].size THEN "d_next" ELSE "d_cell_cas"]
    /\ uaf' = (uaf \/ Touch(s))
    /\ UNCHANGED <<cfg, store_current, store_buffer, segments, help_needed, len, default_segment_size, mmm_epoch,
                   mmm_reservations, mmm_retire_list, mmm_retire_ctr, ops, oob, cleaned>>

\* faulty variant of DeqCellCAS: the marker is stored without comparing, so a
\* cell an enqueuer has filled is overwritten
DeqCellExchange(t) ==
    LET s == loc[t].segment
        i == loc[t].cur_ix
    IN
    /\ pc[t] = "d_cell_cas"
    /\ seg' = [seg EXCEPT ![s].cells[i] = too_slow_marker]
    /\ IF seg[s].cells[i] = empty_cell
       THEN /\ loc' = loc
            /\ pc' = [pc EXCEPT ![t] = "d_read_deq"]
       ELSE /\ loc' = [loc EXCEPT ![t].ret = seg[s].cells[i].item]
            /\ pc' = [pc EXCEPT ![t] = "d_len"]
    /\ uaf' = (uaf \/ Touch(s))
    /\ UNCHANGED <<cfg, store_current, store_buffer, segments, help_needed, len, default_segment_size,
                   mmm_epoch, mmm_reservations, mmm_retire_list, mmm_retire_ctr, ops, oob,
                   cleaned>>

\* CAS(&segment->cells[cur_ix], &cell_contents, too_slow_marker), cell_contents = empty_cell
DeqCellCAS(t) ==
    LET s == loc[t].segment
        i == loc[t].cur_ix
    IN
    /\ pc[t] = "d_cell_cas"
    /\ IF seg[s].cells[i] = empty_cell
       THEN /\ seg' = [seg EXCEPT ![s].cells[i] = too_slow_marker]
            /\ loc' = loc
            /\ pc' = [pc EXCEPT ![t] = "d_read_deq"]
       ELSE /\ seg' = seg
            /\ loc' = [loc EXCEPT ![t].ret = seg[s].cells[i].item]
            /\ pc' = [pc EXCEPT ![t] = "d_len"]
    /\ uaf' = (uaf \/ Touch(s))
    /\ UNCHANGED <<cfg, store_current, store_buffer, segments, help_needed, len, default_segment_size, mmm_epoch,
                   mmm_reservations, mmm_retire_list, mmm_retire_ctr, ops, oob, cleaned>>

\* atomic_fetch_sub(&self->len, 1)
DeqLen(t) ==
    /\ pc[t] = "d_len"
    /\ len' = len - 1
    /\ pc' = [pc EXCEPT ![t] = "d_found"]
    /\ UNCHANGED <<cfg, store_current, store_buffer, seg, segments, help_needed, default_segment_size, mmm_epoch,
                   mmm_reservations, mmm_retire_list, mmm_retire_ctr, loc, ops, uaf, oob,
                   cleaned>>

\* return hatrack_found_w_mmm(found, ret): mmm_end_op, *found = true
DeqFound(t) ==
    /\ pc[t] = "d_found"
    /\ mmm_reservations' = mmm_end_op(t)
    /\ ops' = Return(t, loc[t].ret, TRUE)
    /\ seg' = Unguard(t)
    /\ loc' = [loc EXCEPT ![t] = Loc0]
    /\ pc' = [pc EXCEPT ![t] = "idle"]
    /\ UNCHANGED <<cfg, store_current, store_buffer, segments, help_needed, len, default_segment_size, mmm_epoch,
                   mmm_retire_list, mmm_retire_ctr, uaf, oob, cleaned>>

\* return hatrack_not_found_w_mmm(found): mmm_end_op, *found = false
DeqNotFound(t) ==
    /\ pc[t] = "d_not_found"
    /\ mmm_reservations' = mmm_end_op(t)
    /\ ops' = Return(t, NULL, FALSE)
    /\ seg' = Unguard(t)
    /\ loc' = [loc EXCEPT ![t] = Loc0]
    /\ pc' = [pc EXCEPT ![t] = "idle"]
    /\ UNCHANGED <<cfg, store_current, store_buffer, segments, help_needed, len, default_segment_size, mmm_epoch,
                   mmm_retire_list, mmm_retire_ctr, uaf, oob, cleaned>>

\* new_segment = atomic_read(&segment->next); no successor: the queue is empty
DeqReadNext(t) ==
    LET s == loc[t].segment IN
    /\ pc[t] = "d_next"
    /\ IF seg[s].next = NULL
       THEN /\ loc' = loc
            /\ pc' = [pc EXCEPT ![t] = "d_not_found"]
       ELSE /\ loc' = [loc EXCEPT ![t].new_segment = seg[s].next,
                                  ![t].candidate_segments =
                                      [enq |-> loc[t].segments.enq, deq |-> seg[s].next]]
            /\ pc' = [pc EXCEPT ![t] = "d_swing"]
    /\ uaf' = (uaf \/ Touch(s))
    /\ UNCHANGED <<cfg, store_current, store_buffer, seg, segments, help_needed, len, default_segment_size, mmm_epoch,
                   mmm_reservations, mmm_retire_list, mmm_retire_ctr, ops, oob, cleaned>>

\* faulty variant of DeqSwing: a dequeuer that lost the CAS to another dequeuer
\* goes on to retire the segment as well
DeqSwingRetiresAnyway(t) ==
    LET s == loc[t].segment IN
    /\ pc[t] = "d_swing"
    /\ IF segments = loc[t].segments
       THEN /\ segments' = loc[t].candidate_segments
            /\ loc' = loc
            /\ pc' = [pc EXCEPT ![t] = "d_retire"]
       ELSE /\ segments' = segments
            /\ IF segments.deq # s
               THEN /\ loc' = [loc EXCEPT ![t].segments = segments]
                    /\ pc' = [pc EXCEPT ![t] = "d_retire"]
               ELSE /\ loc' = [loc EXCEPT ![t].segments = segments,
                                          ![t].candidate_segments.enq = segments.enq]
                    /\ pc' = pc
    /\ UNCHANGED <<cfg, store_current, store_buffer, seg, help_needed, len, default_segment_size, mmm_epoch,
                   mmm_reservations, mmm_retire_list, mmm_retire_ctr, ops, uaf, oob, cleaned>>

\* faulty variant of DeqSwing: the pair is stored without comparing it with
\* the pair the dequeuer read
DeqSwingStore(t) ==
    /\ pc[t] = "d_swing"
    /\ segments' = loc[t].candidate_segments
    /\ loc' = loc
    /\ pc' = [pc EXCEPT ![t] = "d_retire"]
    /\ UNCHANGED <<cfg, store_current, store_buffer, seg, help_needed, len, default_segment_size,
                   mmm_epoch, mmm_reservations, mmm_retire_list, mmm_retire_ctr, ops, uaf,
                   oob, cleaned>>

\* one round of while (!CAS(&self->segments, &segments, candidate_segments))
DeqSwing(t) ==
    LET s == loc[t].segment IN
    /\ pc[t] = "d_swing"
    /\ IF segments = loc[t].segments
       THEN /\ segments' = loc[t].candidate_segments
            /\ loc' = loc
            /\ pc' = [pc EXCEPT ![t] = "d_retire"]
       ELSE /\ segments' = segments
            /\ IF segments.deq # s
               THEN /\ loc' = [loc EXCEPT ![t].segments = segments,
                                          ![t].segment = segments.deq]
                    /\ pc' = [pc EXCEPT ![t] = "d_read_deq"]
               ELSE /\ loc' = [loc EXCEPT ![t].segments = segments,
                                          ![t].candidate_segments.enq = segments.enq]
                    /\ pc' = pc
    /\ UNCHANGED <<cfg, store_current, store_buffer, seg, help_needed, len, default_segment_size, mmm_epoch,
                   mmm_reservations, mmm_retire_list, mmm_retire_ctr, ops, uaf, oob, cleaned>>

-----------------------------------------------------------------------------
(* mmm_retire, the reclamation scan, mmm_clean_up_before_exit *)

MinEpoch(a, b) == IF a < b THEN a ELSE b

\* the locals a scan starts with: first slot, no reservation seen yet
ScanStart(l, cont) == [l EXCEPT !.scan_i = 1, !.lowest = MMM_EPOCH_MAX, !.cont = cont]

\* mmm_retire(segment) and the return to the top of the dequeue loop with
\* segments = candidate_segments, segment = new_segment
DeqRetire(t) ==
    LET s == loc[t].segment
        moved == [loc[t] EXCEPT !.segments = loc[t].candidate_segments,
                                !.segment = loc[t].new_segment]
    IN
    /\ pc[t] = "d_retire"
    /\ seg' = [seg EXCEPT ![s].retire_epoch = mmm_epoch, ![s].st = "retired",
                          ![s].guards = {u \in Threads :
                                            mmm_reservations[u] # MMM_EPOCH_UNRESERVED}]
    /\ mmm_retire_list' = [mmm_retire_list EXCEPT ![t] = <<s>> \o @]
    /\ IF mmm_retire_ctr[t] + 1 >= MMM_RETIRE_FREQ
       THEN /\ mmm_retire_ctr' = [mmm_retire_ctr EXCEPT ![t] = 0]
            /\ loc' = [loc EXCEPT ![t] = ScanStart(moved, "d_read_deq")]
            /\ pc' = [pc EXCEPT ![t] = "scan_read"]
       ELSE /\ mmm_retire_ctr' = [mmm_retire_ctr EXCEPT ![t] = @ + 1]
            /\ loc' = [loc EXCEPT ![t] = moved]
            /\ pc' = [pc EXCEPT ![t] = "d_read_deq"]
    /\ uaf' = (uaf \/ Touch(s))
    /\ UNCHANGED <<cfg, store_current, store_buffer, segments, help_needed, len, default_segment_size, mmm_epoch,
                   mmm_reservations, ops, oob, cleaned>>

\* the scan loads one reservation slot and keeps the lowest value seen
ScanRead(t) ==
    LET i == loc[t].scan_i IN
    /\ pc[t] = "scan_read"
    /\ loc' = [loc EXCEPT ![t].lowest = MinEpoch(@, mmm_reservations[i]),
                          ![t].scan_i = i + 1]
    /\ pc' = [pc EXCEPT ![t] = IF i + 1 \in Threads THEN "scan_read" ELSE "scan_free"]
    /\ UNCHANGED <<cfg, store_current, store_buffer, seg, segments, help_needed, len, default_segment_size, mmm_epoch,
                   mmm_reservations, mmm_retire_list, mmm_retire_ctr, ops, uaf, oob, cleaned>>

\* the records of t's retire list that a scan with minimum m frees
Reclaimable(t, m) ==
    {mmm_retire_list[t][k] : k \in {j \in 1..Len(mmm_retire_list[t]) :
                                       seg[mmm_retire_list[t][j]].retire_epoch < m}}

\* t's retire list once a scan with minimum m has unlinked what it frees
Unlinked(t, m) == SelectSeq(mmm_retire_list[t], LAMBDA s : s \notin Reclaimable(t, m))

\* the scan walks the caller's retire list: unlink and free what is older than lowest
ScanFree(t) ==
    /\ pc[t] = "scan_free"
    /\ seg' = [s \in 1..MaxSegs |->
                 IF s \in Reclaimable(t, loc[t].lowest) THEN Freed(seg[s]) ELSE seg[s]]
    /\ mmm_retire_list' = [mmm_retire_list EXCEPT ![t] = Unlinked(t, loc[t].lowest)]
    /\ pc' = [pc EXCEPT ![t] = loc[t].cont]
    /\ loc' = [loc EXCEPT ![t].scan_i = 0, ![t].lowest = 0, ![t].cont = "idle"]
    /\ UNCHANGED <<cfg, store_current, store_buffer, segments, help_needed, len, default_segment_size, mmm_epoch,
                   mmm_reservations, mmm_retire_ctr, ops, uaf, oob, cleaned>>

\* mmm_clean_up_before_exit, called between two queue calls: nothing retired
\* means the thread is gone, otherwise its list is flushed by scans
CleanUpBeforeExit(t) ==
    /\ pc[t] = "idle"
    /\ t \in cfg.exits
    /\ ~cleaned
    /\ IF mmm_retire_list[t] = <<>>
       THEN /\ pc' = [pc EXCEPT ![t] = "exited"]
            /\ loc' = loc
       ELSE /\ pc' = [pc EXCEPT ![t] = "scan_read"]
            /\ loc' = [loc EXCEPT ![t] = ScanStart(Loc0, "exit_check")]
    /\ UNCHANGED <<cfg, store_current, store_buffer, seg, segments, help_needed, len, default_segment_size, mmm_epoch,
                   mmm_reservations, mmm_retire_list, mmm_retire_ctr, ops, uaf, oob, cleaned>>

\* after a scan at exit: done if the list is empty, else advance the epoch and rescan
CleanUpRescan(t) ==
    /\ pc[t] = "exit_check"
    /\ IF mmm_retire_list[t] = <<>>
       THEN /\ pc' = [pc EXCEPT ![t] = "exited"]
            /\ loc' = loc
            /\ mmm_epoch' = mmm_epoch
       ELSE /\ pc' = [pc EXCEPT ![t] = "scan_read"]
            /\ loc' = [loc EXCEPT ![t] = ScanStart(Loc0, "exit_check")]
            /\ mmm_epoch' = IF mmm_epoch < MaxEpoch THEN mmm_epoch + 1 ELSE mmm_epoch
    /\ UNCHANGED <<cfg, store_current, store_buffer, seg, segments, help_needed, len, default_segment_size,
                   mmm_reservations, mmm_retire_list, mmm_retire_ctr, ops, uaf, oob, cleaned>>

-----------------------------------------------------------------------------
(* queue_cleanup *)

RECURSIVE Chain(_)
\* the segments reached from s through next
Chain(s) == IF s = NULL THEN {} ELSE {s} \cup Chain(seg[s].next)

\* queue_cleanup, once every thread is through: free from the dequeue segment on
QueueCleanup ==
    /\ ~cleaned
    /\ \A t \in Threads : Finished(t)
    /\ seg' = [s \in 1..MaxSegs |->
                 IF s \in Chain(segments.deq) THEN Freed(seg[s]) ELSE seg[s]]
    /\ uaf' = (uaf \/ \E s \in Chain(segments.deq) : Touch(s))
    /\ cleaned' = TRUE
    /\ UNCHANGED <<cfg, store_current, store_buffer, segments, help_needed, len, default_segment_size, mmm_epoch,
                   mmm_reservations, mmm_retire_list, mmm_retire_ctr, pc, loc, ops, oob>>

-----------------------------------------------------------------------------

Step(t) ==
    \/ StartEnqueue(t)
    \/ StartDequeue(t)
    \/ Reserve(t)
    \/ EnqReadSegments(t)
    \/ EnqFirstFetchAdd(t)
    \/ EnqFetchAdd(t)
    \/ EnqCellCAS(t)
    \/ EnqRequestHelp(t)
    \/ EnqRereadHelped(t)
    \/ EnqReread(t)
    \/ EnqReadHelp(t)
    \/ EnqInstall(t)
    \/ EnqSwing(t)
    \/ EnqSubHelp(t)
    \/ EnqEndOp(t)
    \/ EnqLen(t)
    \/ DeqReadSegments(t)
    \/ DeqReadDequeueIndex(t)
    \/ DeqReadEnqueueIndex(t)
    \/ DeqFetchAdd(t)
    \/ DeqCellCAS(t)
    \/ DeqLen(t)
    \/ DeqFound(t)
    \/ DeqNotFound(t)
    \/ DeqReadNext(t)
    \/ DeqSwing(t)
    \/ DeqRetire(t)
    \/ ScanRead(t)
    \/ ScanFree(t)
    \/ CleanUpBeforeExit(t)
    \/ CleanUpRescan(t)

Next == (\E t \in Threads : Step(t)) \/ QueueCleanup

Spec == Init /\ [][Next]_vars

-----------------------------------------------------------------------------
(* What the callers have seen *)

\* no call is in flight
Quiescent == \A t \in Threads : DoneCount(t) = Len(ops[t])

\* call j of thread u had returned when call o was made
Precedes(u, j, o) == j <= o.pr[u]

EnqOps == {<<t, i>> \in Threads \X (1..(2 * MaxSeqEnq + 2)) :
              i <= Len(ops[t]) /\ ops[t][i].kind = "enq"}
DeqOps == {<<t, i>> \in Threads \X (1..(2 * MaxSeqEnq + 2)) :
              i <= Len(ops[t]) /\ ops[t][i].kind = "deq"}
OpAt(o) == ops[o[1]][o[2]]

RECURSIVE Lin(_, _)
\* the calls not yet placed (k counts the placed ones of each thread) can be put
\* in an order that respects returns-before-calls and behaves like a FIFO with
\* contents q
Lin(k, q) ==
    IF \A t \in Threads : k[t] = Len(ops[t]) THEN TRUE
    ELSE \E t \in Threads :
           /\ k[t] < Len(ops[t])
           /\ \A u \in Threads : ops[t][k[t] + 1].pr[u] <= k[u]
           /\ LET o == ops[t][k[t] + 1]
                  k2 == [k EXCEPT ![t] = @ + 1]
              IN IF o.kind = "enq" THEN Lin(k2, Append(q, o.item))
                 ELSE IF o.found THEN q # <<>> /\ Head(q) = o.item /\ Lin(k2, Tail(q))
                 ELSE q = <<>> /\ Lin(k2, q)

\* C1: once every call has returned, the calls can be put in one order that
\* respects real time, in which each successful dequeue returns the oldest
\* item still enqueued and each found=false dequeue meets an empty FIFO.
C1_Linearizable == Quiescent => Lin([t \in Threads |-> 0], <<>>)

\* the items handed to queue_enqueue so far, and the dequeues that returned one
EnqItems == {OpAt(o).item : o \in EnqOps}
FoundDeqs == {o \in DeqOps : OpAt(o).done /\ OpAt(o).found}

\* every call has returned and the last one, made after all others had returned,
\* was a dequeue that found nothing
Drained ==
    /\ Quiescent
    /\ \E t \in Threads :
         /\ Len(ops[t]) > 0
         /\ LastOp(t).kind = "deq" /\ ~LastOp(t).found
         /\ \A u \in Threads \ {t} : LastOp(t).pr[u] = Len(ops[u])

\* C2: once the queue is quiescent and drained, the items returned are exactly
\* the items enqueued, each returned by one dequeue only.
C2_NoLossNoDup ==
    Drained => /\ {OpAt(o).item : o \in FoundDeqs} = EnqItems
               /\ Cardinality(FoundDeqs) = Cardinality(EnqItems)

\* thread 1 alone has made calls: n enqueues first, dequeues after that
SeqShape(n) ==
    /\ \A u \in Threads \ {1} : ops[u] = <<>>
    /\ n <= Len(ops[1])
    /\ \A i \in 1..Len(ops[1]) : ops[1][i].kind = (IF i <= n THEN "enq" ELSE "deq")

\* C3: after n enqueues x1..xn on an empty queue, the j-th dequeue returns xj
\* with found=true for j <= n, and dequeue n+1 returns found=false, for every
\* segment size.
C3_SequentialFIFO ==
    \A n \in 0..MaxSeqEnq :
      SeqShape(n) =>
        \A j \in 1..(Len(ops[1]) - n) :
          ops[1][n + j].done =>
            /\ j <= n => ops[1][n + j].found /\ ops[1][n + j].item = ops[1][j].item
            /\ j = n + 1 => ~ops[1][n + j].found

\* MaxSeqEnq enqueues spanning several 2-cell segments, then MaxSeqEnq + 1 dequeues
C3_Witness ==
    /\ cfg.size_log = 1
    /\ SeqShape(MaxSeqEnq)
    /\ Len(ops[1]) = 2 * MaxSeqEnq + 1
    /\ LastOp(1).done

\* every dequeue was made by thread c after all calls of the other threads,
\* which only enqueued, had returned
SingleDrain(c) ==
    /\ \A u \in Threads \ {c} : \A i \in 1..Len(ops[u]) : ops[u][i].kind = "enq"
    /\ \A i \in 1..Len(ops[c]) :
         /\ ops[c][i].kind = "deq"
         /\ \A u \in Threads \ {c} : ops[c][i].pr[u] = Len(ops[u])

\* C4: when one consumer drains after all producers have finished, an item is
\* dequeued only after the items its producer enqueued before it.
C4_PerProducerOrder ==
    \A c \in Threads :
      SingleDrain(c) =>
        \A p \in Threads \ {c} : \A i, j \in 1..Len(ops[p]) :
          \A b \in 1..Len(ops[c]) :
            (i < j /\ ops[c][b].done /\ ops[c][b].found /\ ops[c][b].item = ops[p][j].item)
              => \E a \in 1..(b - 1) :
                   ops[c][a].found /\ ops[c][a].item = ops[p][i].item

\* two producers ran side by side and the drain returned their items interleaved
C4_Witness ==
    /\ SingleDrain(3)
    /\ Quiescent
    /\ Len(ops[3]) = 2 * MaxProdEnq + 2
    /\ ops[3][1].item = 11 /\ ops[3][2].item = 21 /\ ops[3][3].item = 12
    /\ ~LastOp(3).found

\* C5: a dequeue returns found=false only if every item enqueued before it
\* began was taken by a dequeue that began before it returned, and it returns
\* an item only if that item was handed to an enqueue that began before the
\* dequeue returned and no other dequeue returned it.
C5_NotFoundIffEmpty ==
    Quiescent =>
      /\ \A d \in DeqOps : ~OpAt(d).found =>
           \A e \in EnqOps : Precedes(e[1], e[2], OpAt(d)) =>
             \E c \in FoundDeqs : /\ OpAt(c).item = OpAt(e).item
                                  /\ ~Precedes(d[1], d[2], OpAt(c))
      /\ \A d \in FoundDeqs :
           /\ \E e \in EnqOps : /\ OpAt(e).item = OpAt(d).item
                                /\ ~Precedes(d[1], d[2], OpAt(e))
           /\ \A c \in FoundDeqs \ {d} : OpAt(c).item # OpAt(d).item

\* C6: no thread running queue_enqueue or queue_dequeue touches a segment that
\* has been freed.
C6_NoUseAfterFree == ~uaf

\* a scan frees segment s in this step
ScanFrees(s) == seg[s].st = "retired" /\ seg'[s].st = "freed"

\* C7 as stated: a retired record is never freed while some reservation slot
\* holds a value at or below its retire_epoch.
C7_NoSlotAtOrBelow ==
    [][\A s \in 1..MaxSegs :
         ScanFrees(s) => \A u \in Threads : mmm_reservations[u] > seg[s].retire_epoch]_vars

\* C7, amended: a retired record is freed only by a scan of the list it is on
\* whose lowest loaded slot value is above its retire_epoch, and never while a
\* reservation published before the retire is still standing.
C7_ScanSafety ==
    [][\A s \in 1..MaxSegs :
         ScanFrees(s) =>
           /\ seg[s].guards = {}
           /\ \E t \in Threads :
                /\ pc[t] = "scan_free"
                /\ \E k \in 1..Len(mmm_retire_list[t]) : mmm_retire_list[t][k] = s
                /\ seg[s].retire_epoch < loc[t].lowest]_vars

\* a segment that was retired under standing reservations has been freed
C7_Witness ==
    \E s \in 1..MaxSegs :
      /\ seg[s].st = "freed"
      /\ seg[s].retire_epoch >= MMM_EPOCH_FIRST
      /\ \E u \in Threads : mmm_reservations[u] # MMM_EPOCH_UNRESERVED

\* the places where segment s sits on a retire list
ListedAt(s) ==
    {<<t, k>> \in Threads \X (1..MaxSegs) :
        k <= Len(mmm_retire_list[t]) /\ mmm_retire_list[t][k] = s}

\* C8: no segment is freed twice; a retired segment sits on one retire list,
\* once, until a scan frees it, and nothing else frees it.
C8_NoDoubleFree ==
    \A s \in 1..MaxSegs :
      /\ seg[s].frees <= 1
      /\ Cardinality(ListedAt(s)) <= 1
      /\ seg[s].st = "retired" <=> ListedAt(s) # {}

\* s was allocated as a successor but lost the CAS on next
Discarded(s) == s # 1 /\ seg[s].st = "freed" /\ \A r \in 1..MaxSegs : seg[r].next # s

\* queue_cleanup has run after a scan freed a retired segment and after a
\* losing successor was freed by its allocator
C8_Witness ==
    /\ cleaned
    /\ \E s \in 1..MaxSegs : seg[s].st = "freed" /\ seg[s].retire_epoch >= MMM_EPOCH_FIRST
    /\ \E s \in 1..MaxSegs : Discarded(s)
    /\ \E s \in 1..MaxSegs : seg[s].st = "freed" /\ seg[s].retire_epoch = 0 /\ ~Discarded(s)

\* the cells of the segment chain that hold item x
CellsHolding(x) ==
    {c \in UNION {{<<s, i>> : i \in DOMAIN seg[s].cells} :
                     s \in {r \in 1..MaxSegs : seg[r].st # "none" /\ ~Discarded(r)}} :
        seg[c[1]].cells[c[2]].item = x}

\* C9: an enqueue that has returned left its item in exactly one cell.
C9_EnqueuePlacesItem ==
    \A o \in EnqOps : OpAt(o).done => Cardinality(CellsHolding(OpAt(o).item)) = 1

\* thread t is inside queue_dequeue
InDequeue(t) == Len(ops[t]) > 0 /\ LastOp(t).kind = "deq" /\ ~LastOp(t).done

-----------------------------------------------------------------------------
(* The cells, the segment pair and the length counter *)

\* a cell is empty, poisoned, or holds an item
CellOk(c) ==
    \/ c = empty_cell
    \/ c = too_slow_marker
    \/ c.state = QUEUE_USED /\ c.item # NULL

\* cell i of segment s changes in this step only from EMPTY, by the cell CAS of
\* an enqueuer or of a dequeuer that holds index i of s
CellStep(s, i) ==
    seg'[s].cells[i] # seg[s].cells[i] =>
      /\ seg[s].cells[i] = empty_cell
      /\ \/ \E t \in Threads :
              /\ pc[t] = "e_cell_cas" /\ loc[t].segment = s /\ loc[t].cur_ix = i
              /\ seg'[s].cells[i] = [item |-> loc[t].item, state |-> QUEUE_USED]
         \/ \E t \in Threads :
              /\ pc[t] = "d_cell_cas" /\ loc[t].segment = s /\ loc[t].cur_ix = i
              /\ seg'[s].cells[i] = too_slow_marker

\* segment s comes into being in this step: cell 0 holds its allocator's item,
\* every other cell is EMPTY
SegmentBorn(s) ==
    /\ seg'[s].cells[0].state = QUEUE_USED
    /\ \A i \in DOMAIN seg'[s].cells : i # 0 => seg'[s].cells[i] = empty_cell

\* C11: every cell is EMPTY, USED or TOOSLOW; a cell changes only from EMPTY, to
\* USED by an enqueuer's CAS or to TOOSLOW by a dequeuer's CAS, and never again;
\* a successor segment appears with cell 0 USED.
C11_CellMonotonic ==
    /\ [](\A s \in 1..MaxSegs : \A i \in DOMAIN seg[s].cells : CellOk(seg[s].cells[i]))
    /\ [][\A s \in 1..MaxSegs :
            IF seg[s].st = "none"
            THEN seg'[s].st # "none" => SegmentBorn(s)
            ELSE /\ DOMAIN seg'[s].cells = DOMAIN seg[s].cells
                 /\ \A i \in DOMAIN seg[s].cells : CellStep(s, i)]_vars

\* a segment with a poisoned cell and a filled cell has a successor, whose cell 0
\* is USED, and an enqueuer that lost a cell is about to try the next one
C11_Witness ==
    \E s \in 1..MaxSegs :
      /\ seg[s].st = "live"
      /\ \E i, j \in DOMAIN seg[s].cells :
           seg[s].cells[i] = too_slow_marker /\ seg[s].cells[j].state = QUEUE_USED
      /\ seg[s].next # NULL
      /\ seg[seg[s].next].cells[0].state = QUEUE_USED
      /\ \E t \in Threads : pc[t] = "e_faa" /\ loc[t].step >= 2

\* C12: enqueue_segment is reached from dequeue_segment by following next links.
C12_DequeueNotAhead == segments.enq \in Chain(segments.deq)

\* C13: 0 <= len <= (enqueue calls made) - (dequeue calls that returned an item).
C13_LenBounds ==
    /\ 0 <= len
    /\ len <= Cardinality(EnqOps) - Cardinality(FoundDeqs)

-----------------------------------------------------------------------------
(* The commit protocol of mmm.h: mmm_start_linearized_op, mmm_commit_write,   *)
(* mmm_help_commit.  Its callers are the hash tables, which are not part of   *)
(* src/; the runs below use it the way the specification's dictionary does,   *)
(* on one bucket: a put installs a fresh record as the bucket's head, commits *)
(* it and retires the record it replaced; a get reserves a linearized epoch,  *)
(* loads the head, helps to commit it and compares its write_epoch with the   *)
(* epoch.  The records live in the heap `seg`.                                *)
(*                                                                           *)
(* mmm_reservations is a plain array (mmm.h:83) written with plain stores     *)
(* (mmm.h:363, 379, 390) and read by the scans of other threads: a store to   *)
(* a slot enters the writer's store_buffer and reaches shared memory at a     *)
(* later step (SlotFlush), at the latest before the thread's next atomic      *)
(* read-modify-write.  In the queue's runs above the slot store is taken to   *)
(* be in shared memory when Reserve has acted; a later arrival only adds runs *)
(* of the kind shown for C6, a segment freed under a reservation the scan did *)
(* not see.                                                                   *)

\* puts of each writer, gets of the reader
MaxPuts == 1
MaxGets == 1
\* slot stores a thread can have outstanding
MaxBuffered == 2
\* puts of the single writer in the runs of one writer against one reader
MaxLinPuts == 3

\* what mmm_alloc returns: a zeroed header; installed_at remembers the global
\* epoch at the time the record was made reachable
MmmNoRecord == [st |-> "none", write_epoch |-> 0, retire_epoch |-> 0, frees |-> 0,
                guards |-> {}, installed_at |-> 0]
mmm_alloc == [MmmNoRecord EXCEPT !.st = "live"]

MmmLoc0 == [cur_epoch |-> 0, found_epoch |-> 0, ptr |-> NULL, old |-> NULL] @@ Loc0

\* two writers and a reader; the second writer leaves through
\* mmm_clean_up_before_exit
MmmRuns ==
    { [puts |-> (1 :> MaxPuts @@ 2 :> 0 @@ 3 :> MaxPuts),
       gets |-> (1 :> 0 @@ 2 :> MaxGets @@ 3 :> 0),
       exits |-> {3}] }

MmmInit ==
    /\ cfg \in MmmRuns
    /\ default_segment_size = 0
    /\ seg = [s \in 1..MaxSegs |-> MmmNoRecord]
    /\ segments = [enq |-> NULL, deq |-> NULL]
    /\ help_needed = 0
    /\ len = 0
    /\ mmm_epoch = MMM_EPOCH_FIRST
    /\ mmm_reservations = [t \in Threads |-> MMM_EPOCH_UNRESERVED]
    /\ store_buffer = [t \in Threads |-> <<>>]
    /\ mmm_retire_list = [t \in Threads |-> <<>>]
    /\ mmm_retire_ctr = [t \in Threads |-> 0]
    /\ pc = [t \in Threads |-> "idle"]
    /\ loc = [t \in Threads |-> MmmLoc0]
    /\ ops = [t \in Threads |-> <<>>]
    /\ uaf = FALSE
    /\ oob = FALSE
    /\ cleaned = FALSE
    /\ store_current = NULL

\* the record of a call: the record it installed or observed, and for a get the
\* epoch mmm_start_linearized_op returned, what the caller's slot held in shared
\* memory at that moment, the write_epoch it compared with the epoch, and the
\* number of times the loop of mmm_start_linearized_op was entered
MmmCall(kind) == [kind |-> kind, ptr |-> NULL, epoch |-> 0, slot |-> 0, seen |-> 0,
                  tries |-> 0, done |-> FALSE]

\* the bucket's head: the record installed last, NULL in an empty bucket
Head1 ==
    IF \E s \in 1..MaxSegs : seg[s].st = "live"
    THEN CHOOSE s \in 1..MaxSegs : seg[s].st = "live"
    ELSE NULL

\* faulty variant of SlotStore: the store lands in every thread's slot
SlotStoreAll(t, v) == [u \in Threads |-> Append(store_buffer[u], v)]

\* a plain store of v to the caller's slot
SlotStore(t, v) == [store_buffer EXCEPT ![t] = Append(@, v)]
CanStore(t) == Len(store_buffer[t]) < MaxBuffered

\* what the caller itself reads from its slot
SlotView(t) ==
    IF store_buffer[t] = <<>> THEN mmm_reservations[t]
    ELSE store_buffer[t][Len(store_buffer[t])]

\* the oldest outstanding store of t reaches shared memory
SlotFlush(t) ==
    /\ store_buffer[t] # <<>>
    /\ mmm_reservations' = [mmm_reservations EXCEPT ![t] = Head(store_buffer[t])]
    /\ store_buffer' = [store_buffer EXCEPT ![t] = Tail(@)]
    /\ seg' = Unguard(t)
    /\ UNCHANGED <<cfg, store_current, segments, help_needed, len, default_segment_size, mmm_epoch,
                   mmm_retire_list, mmm_retire_ctr, pc, loc, ops, uaf, oob, cleaned>>

\* faulty variant of FetchAdd: the addition is lost
FetchAddLost(v, n) == v

\* faulty variant of FetchAdd: the counter moves by two
FetchAddTwice(v, n) == v + n + n

\* the counter after atomic_fetch_add(&mmm_epoch, 1)
FetchAdd(v, n) == v + n

\* faulty variant of CreatedEpoch: the value the fetch-add returned is used as is
CreatedEpochOld(fetched) == fetched

\* the epoch a commit creates: atomic_fetch_add(&mmm_epoch, 1) + 1
CreatedEpoch(fetched) == fetched + 1

\* faulty variant of LCAS: the value is stored without comparing
LCASBlind(cur, expected, desired) == desired

\* the field after LCAS(&item->write_epoch, &expected, desired)
LCAS(cur, expected, desired) == IF cur = expected THEN desired ELSE cur

\* faulty variant of NeedsCommit: a helper never commits
NeedsCommitNever(found_epoch) == FALSE

\* faulty variant of NeedsCommit: a helper commits whatever it found
NeedsCommitAlways(found_epoch) == TRUE

\* if (!found_epoch)
NeedsCommit(found_epoch) == found_epoch = 0

\* faulty variant of Reservation: the slot is given the epoch after the one read
ReservationAhead(read_epoch) == read_epoch + 1

\* mmm_reservations[mmm_mytid] = read_epoch
Reservation(read_epoch) == read_epoch

\* a put begins: the epoch load of mmm_start_basic_op
StartPut(t) ==
    /\ pc[t] = "idle"
    /\ NumKind(t, "put") < cfg.puts[t]
    /\ ops' = [ops EXCEPT ![t] = Append(@, MmmCall("put"))]
    /\ loc' = [loc EXCEPT ![t] = [MmmLoc0 EXCEPT !.read_epoch = mmm_epoch]]
    /\ pc' = [pc EXCEPT ![t] = "p_reserve"]
    /\ UNCHANGED <<cfg, store_current, store_buffer, seg, segments, help_needed, len,
                   default_segment_size, mmm_epoch, mmm_reservations, mmm_retire_list,
                   mmm_retire_ctr, uaf, oob, cleaned>>

\* mmm_start_basic_op: the store of the loaded epoch into the caller's slot
BasicOpStore(t) ==
    /\ pc[t] = "p_reserve"
    /\ CanStore(t)
    /\ store_buffer' = SlotStore(t, loc[t].read_epoch)
    /\ pc' = [pc EXCEPT ![t] = "p_install"]
    /\ UNCHANGED <<cfg, store_current, seg, segments, help_needed, len, default_segment_size, mmm_epoch,
                   mmm_reservations, mmm_retire_list, mmm_retire_ctr, loc, ops, uaf, oob,
                   cleaned>>

\* mmm_alloc, and the CAS that makes the record the bucket's head in place of
\* the record it replaces
Install(t) ==
    LET n == FreshSeg
        old == Head1
    IN
    /\ pc[t] = "p_install"
    /\ store_buffer[t] = <<>>
    /\ HaveFresh
    /\ seg' = [s \in 1..MaxSegs |->
                 IF s = n THEN [mmm_alloc EXCEPT !.installed_at = mmm_epoch]
                 ELSE IF s = old THEN [seg[s] EXCEPT !.st = "unlinked"]
                 ELSE seg[s]]
    /\ loc' = [loc EXCEPT ![t].ptr = n, ![t].old = old]
    /\ ops' = [ops EXCEPT ![t][Len(ops[t])].ptr = n]
    /\ pc' = [pc EXCEPT ![t] = "c_faa"]
    /\ UNCHANGED <<cfg, store_current, store_buffer, segments, help_needed, len, default_segment_size,
                   mmm_epoch, mmm_reservations, mmm_retire_list, mmm_retire_ctr, uaf, oob,
                   cleaned>>

\* mmm_commit_write: cur_epoch = atomic_fetch_add(&mmm_epoch, 1) + 1
CommitFetchAdd(t) ==
    /\ pc[t] = "c_faa"
    /\ store_buffer[t] = <<>>
    /\ loc' = [loc EXCEPT ![t].cur_epoch = CreatedEpoch(mmm_epoch)]
    /\ mmm_epoch' = FetchAdd(mmm_epoch, 1)
    /\ pc' = [pc EXCEPT ![t] = "c_cas"]
    /\ UNCHANGED <<cfg, store_current, store_buffer, seg, segments, help_needed, len,
                   default_segment_size, mmm_reservations, mmm_retire_list,
                   mmm_retire_ctr, ops, uaf, oob, cleaned>>

\* mmm_commit_write: LCAS(&item->write_epoch, &expected_value, cur_epoch) with
\* expected_value = 0; the result is ignored
CommitCAS(t) ==
    LET p == loc[t].ptr IN
    /\ pc[t] = "c_cas"
    /\ store_buffer[t] = <<>>
    /\ seg' = [seg EXCEPT ![p].write_epoch = LCAS(@, 0, loc[t].cur_epoch)]
    /\ pc' = [pc EXCEPT ![t] = IF loc[t].old = NULL THEN "p_end_op" ELSE "p_retire"]
    /\ uaf' = (uaf \/ Touch(p))
    /\ UNCHANGED <<cfg, store_current, store_buffer, segments, help_needed, len, default_segment_size,
                   mmm_epoch, mmm_reservations, mmm_retire_list, mmm_retire_ctr, loc, ops,
                   oob, cleaned>>

\* mmm_retire(old): stamp, push, and a scan when MMM_RETIRE_FREQ retires are due
PutRetire(t) ==
    LET s == loc[t].old IN
    /\ pc[t] = "p_retire"
    /\ seg' = [seg EXCEPT ![s].retire_epoch = mmm_epoch, ![s].st = "retired",
                          ![s].guards = {u \in Threads :
                                            mmm_reservations[u] # MMM_EPOCH_UNRESERVED}]
    /\ mmm_retire_list' = [mmm_retire_list EXCEPT ![t] = <<s>> \o @]
    /\ IF mmm_retire_ctr[t] + 1 >= MMM_RETIRE_FREQ
       THEN /\ mmm_retire_ctr' = [mmm_retire_ctr EXCEPT ![t] = 0]
            /\ loc' = [loc EXCEPT ![t] = ScanStart(loc[t], "p_end_op")]
            /\ pc' = [pc EXCEPT ![t] = "scan_read"]
       ELSE /\ mmm_retire_ctr' = [mmm_retire_ctr EXCEPT ![t] = @ + 1]
            /\ loc' = loc
            /\ pc' = [pc EXCEPT ![t] = "p_end_op"]
    /\ UNCHANGED <<cfg, store_current, store_buffer, segments, help_needed, len, default_segment_size,
                   mmm_epoch, mmm_reservations, ops, uaf, oob, cleaned>>

\* mmm_end_op at the end of a put
PutEndOp(t) ==
    /\ pc[t] = "p_end_op"
    /\ CanStore(t)
    /\ store_buffer' = SlotStore(t, MMM_EPOCH_UNRESERVED)
    /\ ops' = [ops EXCEPT ![t][Len(ops[t])].done = TRUE]
    /\ loc' = [loc EXCEPT ![t] = MmmLoc0]
    /\ pc' = [pc EXCEPT ![t] = "idle"]
    /\ UNCHANGED <<cfg, store_current, seg, segments, help_needed, len, default_segment_size, mmm_epoch,
                   mmm_reservations, mmm_retire_list, mmm_retire_ctr, uaf, oob, cleaned>>

\* a get begins: mmm_start_linearized_op, read_epoch = atomic_load(&mmm_epoch)
StartGet(t) ==
    /\ pc[t] = "idle"
    /\ NumKind(t, "get") < cfg.gets[t]
    /\ ops' = [ops EXCEPT ![t] = Append(@, MmmCall("get"))]
    /\ loc' = [loc EXCEPT ![t] = [MmmLoc0 EXCEPT !.read_epoch = mmm_epoch]]
    /\ pc' = [pc EXCEPT ![t] = "l_store"]
    /\ UNCHANGED <<cfg, store_current, store_buffer, seg, segments, help_needed, len,
                   default_segment_size, mmm_epoch, mmm_reservations, mmm_retire_list,
                   mmm_retire_ctr, uaf, oob, cleaned>>

\* mmm_start_linearized_op: mmm_reservations[mmm_mytid] = read_epoch
LinearizedStore(t) ==
    /\ pc[t] = "l_store"
    /\ CanStore(t)
    /\ store_buffer' = SlotStore(t, Reservation(loc[t].read_epoch))
    /\ ops' = [ops EXCEPT ![t][Len(ops[t])].tries = @ + 1]
    /\ pc' = [pc EXCEPT ![t] = "l_reload"]
    /\ UNCHANGED <<cfg, store_current, seg, segments, help_needed, len, default_segment_size, mmm_epoch,
                   mmm_reservations, mmm_retire_list, mmm_retire_ctr, loc, uaf, oob,
                   cleaned>>

\* mmm_start_linearized_op: read_epoch = atomic_load(&mmm_epoch), then the loop
\* test against the caller's own slot; on exit read_epoch is returned
LinearizedReload(t) ==
    /\ pc[t] = "l_reload"
    /\ loc' = [loc EXCEPT ![t].read_epoch = mmm_epoch]
    /\ IF mmm_epoch # SlotView(t)
       THEN /\ pc' = [pc EXCEPT ![t] = "l_store"]
            /\ ops' = ops
       ELSE /\ pc' = [pc EXCEPT ![t] = "g_observe"]
            /\ ops' = [ops EXCEPT ![t][Len(ops[t])].epoch = mmm_epoch,
                                  ![t][Len(ops[t])].slot = mmm_reservations[t]]
    /\ UNCHANGED <<cfg, store_current, store_buffer, seg, segments, help_needed, len,
                   default_segment_size, mmm_epoch, mmm_reservations, mmm_retire_list,
                   mmm_retire_ctr, uaf, oob, cleaned>>

\* the reader loads the bucket's head and hands it to mmm_help_commit, which
\* returns at once for NULL
Observe(t) ==
    /\ pc[t] = "g_observe"
    /\ loc' = [loc EXCEPT ![t].ptr = Head1]
    /\ ops' = [ops EXCEPT ![t][Len(ops[t])].ptr = Head1]
    /\ pc' = [pc EXCEPT ![t] = IF Head1 = NULL THEN "g_end_op" ELSE "h_load"]
    /\ UNCHANGED <<cfg, store_current, store_buffer, seg, segments, help_needed, len,
                   default_segment_size, mmm_epoch, mmm_reservations, mmm_retire_list,
                   mmm_retire_ctr, uaf, oob, cleaned>>

\* mmm_help_commit: found_epoch = item->write_epoch; if (!found_epoch)
HelpLoad(t) ==
    LET p == loc[t].ptr IN
    /\ pc[t] = "h_load"
    /\ loc' = [loc EXCEPT ![t].found_epoch = seg[p].write_epoch]
    /\ pc' = [pc EXCEPT ![t] =
                 IF NeedsCommit(seg[p].write_epoch) THEN "h_faa" ELSE "g_compare"]
    /\ uaf' = (uaf \/ Touch(p))
    /\ UNCHANGED <<cfg, store_current, store_buffer, seg, segments, help_needed, len,
                   default_segment_size, mmm_epoch, mmm_reservations, mmm_retire_list,
                   mmm_retire_ctr, ops, oob, cleaned>>

\* mmm_help_commit: cur_epoch = atomic_fetch_add(&mmm_epoch, 1) + 1
HelpFetchAdd(t) ==
    /\ pc[t] = "h_faa"
    /\ store_buffer[t] = <<>>
    /\ loc' = [loc EXCEPT ![t].cur_epoch = CreatedEpoch(mmm_epoch)]
    /\ mmm_epoch' = FetchAdd(mmm_epoch, 1)
    /\ pc' = [pc EXCEPT ![t] = "h_cas"]
    /\ UNCHANGED <<cfg, store_current, store_buffer, seg, segments, help_needed, len,
                   default_segment_size, mmm_reservations, mmm_retire_list,
                   mmm_retire_ctr, ops, uaf, oob, cleaned>>

\* mmm_help_commit: LCAS(&item->write_epoch, &found_epoch, cur_epoch)
HelpCAS(t) ==
    LET p == loc[t].ptr IN
    /\ pc[t] = "h_cas"
    /\ store_buffer[t] = <<>>
    /\ seg' = [seg EXCEPT ![p].write_epoch = LCAS(@, loc[t].found_epoch, loc[t].cur_epoch)]
    /\ pc' = [pc EXCEPT ![t] = "g_compare"]
    /\ uaf' = (uaf \/ Touch(p))
    /\ UNCHANGED <<cfg, store_current, store_buffer, segments, help_needed, len, default_segment_size,
                   mmm_epoch, mmm_reservations, mmm_retire_list, mmm_retire_ctr, loc, ops,
                   oob, cleaned>>

\* the reader loads the record's write_epoch to compare it with its epoch
Compare(t) ==
    LET p == loc[t].ptr IN
    /\ pc[t] = "g_compare"
    /\ ops' = [ops EXCEPT ![t][Len(ops[t])].seen = seg[p].write_epoch]
    /\ pc' = [pc EXCEPT ![t] = "g_end_op"]
    /\ uaf' = (uaf \/ Touch(p))
    /\ UNCHANGED <<cfg, store_current, store_buffer, seg, segments, help_needed, len,
                   default_segment_size, mmm_epoch, mmm_reservations, mmm_retire_list,
                   mmm_retire_ctr, loc, oob, cleaned>>

\* mmm_end_op at the end of a get
GetEndOp(t) ==
    /\ pc[t] = "g_end_op"
    /\ CanStore(t)
    /\ store_buffer' = SlotStore(t, MMM_EPOCH_UNRESERVED)
    /\ ops' = [ops EXCEPT ![t][Len(ops[t])].done = TRUE]
    /\ loc' = [loc EXCEPT ![t] = MmmLoc0]
    /\ pc' = [pc EXCEPT ![t] = "idle"]
    /\ UNCHANGED <<cfg, store_current, seg, segments, help_needed, len, default_segment_size, mmm_epoch,
                   mmm_reservations, mmm_retire_list, mmm_retire_ctr, uaf, oob, cleaned>>

MmmStep(t) ==
    \/ StartPut(t)
    \/ BasicOpStore(t)
    \/ Install(t)
    \/ CommitFetchAdd(t)
    \/ CommitCAS(t)
    \/ PutRetire(t)
    \/ PutEndOp(t)
    \/ StartGet(t)
    \/ LinearizedStore(t)
    \/ LinearizedReload(t)
    \/ Observe(t)
    \/ HelpLoad(t)
    \/ HelpFetchAdd(t)
    \/ HelpCAS(t)
    \/ Compare(t)
    \/ GetEndOp(t)
    \/ ScanRead(t)
    \/ ScanFree(t)
    \/ CleanUpBeforeExit(t)
    \/ CleanUpRescan(t)

MmmNext == \E t \in Threads : MmmStep(t) \/ SlotFlush(t)

MmmSpec == MmmInit /\ [][MmmNext]_vars

\* one writer that puts MaxLinPuts times and then leaves, and a reader
LinRuns ==
    { [puts |-> (1 :> MaxLinPuts @@ 2 :> 0 @@ 3 :> 0),
       gets |-> (1 :> 0 @@ 2 :> 1 @@ 3 :> 0),
       exits |-> {1}] }

LinInit ==
    /\ cfg \in LinRuns
    /\ default_segment_size = 0
    /\ seg = [s \in 1..MaxSegs |-> MmmNoRecord]
    /\ segments = [enq |-> NULL, deq |-> NULL]
    /\ help_needed = 0
    /\ len = 0
    /\ mmm_epoch = MMM_EPOCH_FIRST
    /\ mmm_reservations = [t \in Threads |-> MMM_EPOCH_UNRESERVED]
    /\ store_buffer = [t \in Threads |-> <<>>]
    /\ mmm_retire_list = [t \in Threads |-> <<>>]
    /\ mmm_retire_ctr = [t \in Threads |-> 0]
    /\ pc = [t \in Threads |-> "idle"]
    /\ loc = [t \in Threads |-> MmmLoc0]
    /\ ops = [t \in Threads |-> <<>>]
    /\ uaf = FALSE
    /\ oob = FALSE
    /\ cleaned = FALSE
    /\ store_current = NULL

LinSpec == LinInit /\ [][MmmNext]_vars

-----------------------------------------------------------------------------
(* What the commit protocol guarantees *)

\* thread t takes this step
Moves(t) == pc'[t] # pc[t]

\* C14: a record's write_epoch changes only from 0 to a non-zero epoch, by the
\* CAS of mmm_commit_write or of mmm_help_commit on that record, which stores
\* the epoch its thread created; once non-zero it never changes.
C14_SingleWinner ==
    [][\A s \in 1..MaxSegs :
         seg'[s].write_epoch # seg[s].write_epoch =>
           /\ seg[s].write_epoch = 0
           /\ seg'[s].write_epoch # 0
           /\ \E t \in Threads :
                /\ pc[t] \in {"c_cas", "h_cas"} /\ loc[t].ptr = s /\ Moves(t)
                /\ seg'[s].write_epoch = loc[t].cur_epoch]_vars

\* the writer's CAS has failed on a record that a helper, which created its
\* epoch after the writer created its own, had committed
C14_Witness ==
    \E t \in Threads :
      /\ pc[t] \in {"p_retire", "p_end_op"}
      /\ seg[loc[t].ptr].write_epoch > loc[t].cur_epoch

\* C15: no two records carry the same non-zero write_epoch.
C15_DistinctEpochs ==
    \A r, s \in 1..MaxSegs :
      (r # s /\ seg[r].write_epoch # 0 /\ seg[s].write_epoch # 0)
        => seg[r].write_epoch # seg[s].write_epoch

\* two records are committed, after more epochs were created than records
C15_Witness ==
    /\ \E r, s \in 1..MaxSegs :
         r # s /\ seg[r].write_epoch # 0 /\ seg[s].write_epoch # 0
    /\ mmm_epoch > MMM_EPOCH_FIRST + 2

\* C16: when mmm_start_linearized_op returns e, the caller's slot holds e (and
\* held it when the global epoch was last loaded as e).
C16_StableReservation ==
    \A t \in Threads : \A i \in 1..Len(ops[t]) :
      (ops[t][i].kind = "get" /\ ops[t][i].epoch # 0) => ops[t][i].slot = ops[t][i].epoch

\* mmm_start_linearized_op has returned to t, and its reservation is in t's
\* slot in shared memory
HoldsLinearized(t) ==
    /\ pc[t] \in {"g_observe", "h_load", "h_faa", "h_cas", "g_compare", "g_end_op"}
    /\ store_buffer[t] = <<>>
    /\ mmm_reservations[t] = LastOp(t).epoch

\* C17 as stated: while a thread holds the reservation of a linearized
\* operation that returned e, no record with retire_epoch < e is freed.
C17_NoFreeBelow ==
    [][\A s \in 1..MaxSegs : \A u \in Threads :
         (ScanFrees(s) /\ HoldsLinearized(u)) => ~(seg[s].retire_epoch < LastOp(u).epoch)]_vars

\* C17, amended: a record retired while a reservation e stands in its owner's
\* slot has retire_epoch >= e, and is not freed while the thread holds that
\* reservation.
C17_HeldReservation ==
    /\ [](\A s \in 1..MaxSegs : \A u \in seg[s].guards :
            seg[s].retire_epoch >= mmm_reservations[u])
    /\ [][\A s \in 1..MaxSegs : \A u \in Threads :
            (ScanFrees(s) /\ HoldsLinearized(u)) => u \notin seg[s].guards]_vars

\* a record was retired under a reader's standing linearized reservation, and
\* the scan that followed the retire has left it on the list
C17_Witness ==
    \E s \in 1..MaxSegs : \E t, u \in Threads :
      /\ seg[s].st = "retired"
      /\ u \in seg[s].guards /\ HoldsLinearized(u)
      /\ pc[t] = "p_end_op" /\ loc[t].old = s

\* C18: once mmm_help_commit has returned for a record (one that has not been
\* freed), the record's write_epoch is non-zero: the write_epoch a reader then
\* compares with its epoch is definite, whatever the record's writer has done.
C18_CommitTotality ==
    \A t \in Threads :
      (pc[t] = "g_compare" /\ seg[loc[t].ptr].st # "freed")
        => seg[loc[t].ptr].write_epoch > 0

\* a reader has compared the write_epoch of a record whose writer has not yet
\* begun its own commit
C18_Witness ==
    \E t, w \in Threads :
      /\ Len(ops[t]) > 0 /\ LastOp(t).kind = "get" /\ LastOp(t).done
      /\ LastOp(t).seen > 0
      /\ pc[w] = "c_faa" /\ loc[w].ptr = LastOp(t).ptr

\* C19 as stated: the epoch starts at MMM_EPOCH_FIRST and never decreases; each
\* commit advances it by exactly 1 and nothing else changes it.
C19_OnlyCommitsAdvance ==
    /\ [](mmm_epoch >= MMM_EPOCH_FIRST)
    /\ [][/\ mmm_epoch' >= mmm_epoch
          /\ mmm_epoch' # mmm_epoch =>
               \E t \in Threads : pc[t] \in {"c_faa", "h_faa"} /\ Moves(t)
          /\ \A t \in Threads : (pc[t] \in {"c_faa", "h_faa"} /\ Moves(t))
                                  => mmm_epoch' = mmm_epoch + 1]_vars

\* C19, amended: the epoch starts at MMM_EPOCH_FIRST and moves only up, by 1 at
\* a time: once per commit, and once per round of mmm_clean_up_before_exit that
\* found the caller's retire list still populated after a scan.
C19_EpochAdvances ==
    /\ [](mmm_epoch >= MMM_EPOCH_FIRST)
    /\ [][/\ mmm_epoch' \in {mmm_epoch, mmm_epoch + 1}
          /\ mmm_epoch' # mmm_epoch =>
               \E t \in Threads : pc[t] \in {"c_faa", "h_faa", "exit_check"} /\ Moves(t)
          /\ \A t \in Threads : (pc[t] \in {"c_faa", "h_faa"} /\ Moves(t))
                                  => mmm_epoch' = mmm_epoch + 1]_vars

\* the writer and a helper have each created an epoch for the same record
C19_Witness ==
    \E t, u \in Threads :
      /\ pc[t] = "c_cas" /\ pc[u] = "h_cas" /\ loc[t].ptr = loc[u].ptr
      /\ loc[t].cur_epoch # loc[u].cur_epoch
      /\ mmm_epoch >= MMM_EPOCH_FIRST + 2

\* thread t is inside a get
InGet(t) == Len(ops[t]) > 0 /\ LastOp(t).kind = "get" /\ ~LastOp(t).done

\* C20 as stated: no step of a thread performing a read operation changes the
\* global epoch.
C20_ReadersOnlyRead ==
    [][\A t \in Threads :
         ((InGet(t) \/ InGet(t)') /\ Moves(t)) => mmm_epoch' = mmm_epoch]_vars

\* C20, amended: of the steps of a read operation only the fetch-add of
\* mmm_help_commit changes the global epoch, by 1, and a reader reaches it only
\* for a record whose write_epoch it loaded as 0.
C20_ReaderEpochSteps ==
    [][\A t \in Threads :
         ((InGet(t) \/ InGet(t)') /\ Moves(t)) =>
           IF pc[t] = "h_faa"
           THEN loc[t].found_epoch = 0 /\ mmm_epoch' = mmm_epoch + 1
           ELSE mmm_epoch' = mmm_epoch]_vars

\* a reader has created an epoch for a record it found uncommitted
C20_Witness ==
    \E t \in Threads :
      /\ InGet(t) /\ pc[t] = "h_cas"
      /\ loc[t].found_epoch = 0 /\ loc[t].cur_epoch = mmm_epoch

-----------------------------------------------------------------------------
(* Progress of mmm_start_linearized_op *)

\* C21: mmm_start_linearized_op completes in a bounded number of the caller's
\* own steps whatever the other threads do: the passes through its loop stay
\* within the bound the specification gives for the SMR operations, the length
\* of the reservation table.
C21_WaitFree ==
    \A t \in Threads : \A i \in 1..Len(ops[t]) :
      ops[t][i].kind = "get" => ops[t][i].tries <= Cardinality(Threads)

-----------------------------------------------------------------------------
(* queue_init_size as a call: the queue before construction, and the call     *)
(* with every size_log around the valid range                                 *)

\* the values of size_log tried: from below QSIZE_LOG_MIN to above QSIZE_LOG_MAX
InitSizeLogs == (QSIZE_LOG_MIN - 2)..(QSIZE_LOG_MAX + 1)

InitConfigs ==
    Configs \cup {[c EXCEPT !.size_log = sl] : c \in SeqRuns, sl \in InitSizeLogs}

\* a queue_t that queue_init_size has not yet been called on
PreInit ==
    /\ cfg \in InitConfigs
    /\ default_segment_size = 0
    /\ seg = [s \in 1..MaxSegs |-> NoSegment]
    /\ segments = [enq |-> NULL, deq |-> NULL]
    /\ help_needed = 0
    /\ len = 0
    /\ mmm_epoch = MMM_EPOCH_FIRST
    /\ mmm_reservations = [t \in Threads |-> MMM_EPOCH_UNRESERVED]
    /\ store_buffer = [t \in Threads |-> <<>>]
    /\ mmm_retire_list = [t \in Threads |-> <<>>]
    /\ mmm_retire_ctr = [t \in Threads |-> 0]
    /\ pc = [t \in Threads |-> "uninit"]
    /\ loc = [t \in Threads |-> Loc0]
    /\ ops = [t \in Threads |-> <<>>]
    /\ uaf = FALSE
    /\ oob = FALSE
    /\ cleaned = FALSE
    /\ store_current = NULL

\* queue_init_size(self, cfg.size_log): abort(), or the first segment and the
\* three atomic stores
queue_init_size ==
    LET seg_cells == SegCells(cfg.size_log)
        initial_segment == FreshSeg
    IN
    /\ \A t \in Threads : pc[t] = "uninit"
    /\ IF seg_cells = 0
       THEN /\ pc' = [t \in Threads |-> "aborted"]
            /\ UNCHANGED <<default_segment_size, seg, segments, help_needed, len>>
       ELSE /\ default_segment_size' = seg_cells
            /\ seg' = [seg EXCEPT ![initial_segment] = queue_new_segment(seg_cells)]
            /\ segments' = [enq |-> initial_segment, deq |-> initial_segment]
            /\ help_needed' = 0
            /\ len' = 0
            /\ pc' = [t \in Threads |-> "idle"]
    /\ UNCHANGED <<cfg, store_current, store_buffer, mmm_epoch, mmm_reservations, mmm_retire_list,
                   mmm_retire_ctr, loc, ops, uaf, oob, cleaned>>

InitNext == queue_init_size \/ Next

InitSpec == PreInit /\ [][InitNext]_vars

\* queue_init_size is being called
Constructing == \A t \in Threads : pc[t] = "uninit"

\* C22: queue_init_size(size_log) with a non-zero size_log outside
\* [QSIZE_LOG_MIN, QSIZE_LOG_MAX] aborts before any segment is created;
\* otherwise the queue starts with one segment, of 2^size_log cells (of
\* 2^QSIZE_LOG_DEFAULT cells for size_log = 0), all EMPTY, that is both the
\* enqueue and the dequeue segment, with both indices, help_needed and len 0.
C22_InitValidation ==
    [][Constructing =>
         LET sl == cfg.size_log IN
         IF sl # 0 /\ (sl < QSIZE_LOG_MIN \/ sl > QSIZE_LOG_MAX)
         THEN /\ \A t \in Threads : pc'[t] = "aborted"
              /\ \A s \in 1..MaxSegs : seg'[s].st = "none"
         ELSE LET n == 2 ^ (IF sl = 0 THEN QSIZE_LOG_DEFAULT ELSE sl)
                  s == segments'.enq
              IN /\ \A t \in Threads : pc'[t] = "idle"
                 /\ s # NULL /\ segments'.deq = s
                 /\ \A r \in 1..MaxSegs : seg'[r].st # "none" <=> r = s
                 /\ seg'[s].st = "live" /\ seg'[s].size = n
                 /\ DOMAIN seg'[s].cells = 0..(n - 1)
                 /\ \A i \in 0..(n - 1) : seg'[s].cells[i].state = QUEUE_EMPTY
                 /\ seg'[s].enqueue_index = 0 /\ seg'[s].dequeue_index = 0
                 /\ seg'[s].next = NULL
                 /\ help_needed' = 0 /\ len' = 0
                 /\ default_segment_size' = n]_vars

\* queue_init_size has aborted on a size_log above QSIZE_LOG_MAX
C22_Witness ==
    /\ cfg.size_log > QSIZE_LOG_MAX
    /\ \A t \in Threads : pc[t] = "aborted"
    /\ \A s \in 1..MaxSegs : seg[s].st = "none"

-----------------------------------------------------------------------------
(* One producer against one consumer *)

\* items the producer enqueues
MaxPcEnq == 2

\* thread 1 enqueues MaxPcEnq items while thread 2 dequeues, up to two times
\* more than there are items
PcRuns ==
    { [size_log |-> 1, b |-> Budget(MaxPcEnq, 0, 0, MaxPcEnq + 2, 0, 0),
       late |-> {}, exits |-> {}, deq_first |-> {}] }

PcInit ==
    /\ cfg \in Configs \cup PcRuns
    /\ default_segment_size = SegCells(cfg.size_log)
    /\ seg = [s \in 1..MaxSegs |->
                IF s = 1 THEN queue_new_segment(SegCells(cfg.size_log)) ELSE NoSegment]
    /\ segments = [enq |-> 1, deq |-> 1]
    /\ help_needed = 0
    /\ len = 0
    /\ mmm_epoch = MMM_EPOCH_FIRST
    /\ mmm_reservations = [t \in Threads |-> MMM_EPOCH_UNRESERVED]
    /\ store_buffer = [t \in Threads |-> <<>>]
    /\ mmm_retire_list = [t \in Threads |-> <<>>]
    /\ mmm_retire_ctr = [t \in Threads |-> 0]
    /\ pc = [t \in Threads |-> "idle"]
    /\ loc = [t \in Threads |-> Loc0]
    /\ ops = [t \in Threads |-> <<>>]
    /\ uaf = FALSE
    /\ oob = FALSE
    /\ cleaned = FALSE
    /\ store_current = NULL

PcSpec == PcInit /\ [][Next]_vars

\* the run is one of a producer (thread 1) against a consumer (thread 2)
PcRun == cfg \in PcRuns

\* the dequeues among the first n calls of the consumer that returned an item
FoundUpTo(n) == {i \in 1..n : ops[2][i].done /\ ops[2][i].found}

\* C23 as stated: the consumer obtains found=true exactly MaxPcEnq times in
\* total (never more, and all of them once it has drained the queue after the
\* producer's last enqueue), and a dequeue returns found=false only after the
\* producer has completed all of its enqueues.
C23_ProducerConsumer ==
    PcRun =>
      /\ Cardinality(FoundDeqs) <= MaxPcEnq
      /\ (Drained /\ Len(ops[1]) = MaxPcEnq) => Cardinality(FoundDeqs) = MaxPcEnq
      /\ \A i \in 1..Len(ops[2]) :
           (ops[2][i].done /\ ~ops[2][i].found) => Now[1] = MaxPcEnq

\* C23, amended: the consumer's k-th found=true returns the producer's k-th
\* item, so there are never more than MaxPcEnq of them, and there are exactly
\* MaxPcEnq once a dequeue begun after the producer's last enqueue has returned
\* found=false; a dequeue returns found=false, before or after the producer
\* has completed, only when the consumer has already obtained every item whose
\* enqueue had returned when the dequeue began.
C23_ConsumerCounts ==
    PcRun =>
      /\ \A i \in 1..Len(ops[2]) :
           (ops[2][i].done /\ ops[2][i].found) =>
             LET k == Cardinality(FoundUpTo(i)) IN
             k <= Len(ops[1]) /\ ops[2][i].item = ops[1][k].item
      /\ \A i \in 1..Len(ops[2]) :
           (ops[2][i].done /\ ~ops[2][i].found) =>
             Cardinality(FoundUpTo(i)) >= ops[2][i].pr[1]
      /\ (Drained /\ Len(ops[1]) = MaxPcEnq) => Cardinality(FoundDeqs) = MaxPcEnq

\* the consumer found the queue empty before the producer's first enqueue had
\* returned, then obtained every item, and then found the queue empty again
C23_Witness ==
    /\ PcRun
    /\ Drained /\ Len(ops[1]) = MaxPcEnq
    /\ Len(ops[2]) = MaxPcEnq + 2
    /\ ~ops[2][1].found
    /\ Cardinality(FoundDeqs) = MaxPcEnq

-----------------------------------------------------------------------------
(* One thread filling a segment exactly *)

\* thread 1 alone, with enough enqueues to fill two segments and start a third,
\* and one dequeue, for every valid segment size
FillRuns ==
    { [size_log |-> sl, b |-> Budget(2 * (2 ^ sl) + 1, 1, 0, 0, 0, 0),
       late |-> {}, exits |-> {}, deq_first |-> {}] : sl \in QSIZE_LOG_MIN..QSIZE_LOG_MAX }

FillInit ==
    /\ cfg \in Configs \cup FillRuns
    /\ default_segment_size = SegCells(cfg.size_log)
    /\ seg = [s \in 1..MaxSegs |->
                IF s = 1 THEN queue_new_segment(SegCells(cfg.size_log)) ELSE NoSegment]
    /\ segments = [enq |-> 1, deq |-> 1]
    /\ help_needed = 0
    /\ len = 0
    /\ mmm_epoch = MMM_EPOCH_FIRST
    /\ mmm_reservations = [t \in Threads |-> MMM_EPOCH_UNRESERVED]
    /\ store_buffer = [t \in Threads |-> <<>>]
    /\ mmm_retire_list = [t \in Threads |-> <<>>]
    /\ mmm_retire_ctr = [t \in Threads |-> 0]
    /\ pc = [t \in Threads |-> "idle"]
    /\ loc = [t \in Threads |-> Loc0]
    /\ ops = [t \in Threads |-> <<>>]
    /\ uaf = FALSE
    /\ oob = FALSE
    /\ cleaned = FALSE
    /\ store_current = NULL

FillSpec == FillInit /\ [][Next]_vars

\* thread 1 alone has made n calls, all returned: size enqueues, one dequeue,
\* then enqueues only
FillShape(size, n) ==
    /\ \A u \in Threads \ {1} : ops[u] = <<>>
    /\ Len(ops[1]) = n /\ Quiescent
    /\ \A i \in 1..n : ops[1][i].kind = (IF i = size + 1 THEN "deq" ELSE "enq")

\* the segments allocated so far
Allocated == {s \in 1..MaxSegs : seg[s].st # "none"}

\* the cells of the enqueue segment that an enqueue can still take
FreeCells ==
    LET s == segments.enq IN
    {i \in 0..(seg[s].size - 1) :
       i >= seg[s].enqueue_index /\ seg[s].cells[i].state = QUEUE_EMPTY}

\* C24: on a fresh queue with segments of `size` cells, after `size` enqueues,
\* one dequeue and `size - 1` further enqueues, the enqueue segment (the second
\* segment) has exactly one cell an enqueue can still take: the next enqueue
\* takes it without an allocation, and the one after that allocates the third
\* segment.
C24_FillBoundary ==
    LET size == default_segment_size IN
    /\ FillShape(size, 2 * size) =>
         Cardinality(Allocated) = 2 /\ Cardinality(FreeCells) = 1
    /\ FillShape(size, 2 * size + 1) =>
         Cardinality(Allocated) = 2 /\ FreeCells = {}
    /\ FillShape(size, 2 * size + 2) => Cardinality(Allocated) = 3

\* with segments of 4 cells: 4 enqueues, a dequeue, 3 enqueues, the enqueue
\* that takes the last cell and the enqueue that allocates the third segment
C24_Witness ==
    /\ default_segment_size = 2 ^ QSIZE_LOG_MAX
    /\ FillShape(default_segment_size, 2 * default_segment_size + 2)
    /\ Cardinality(Allocated) = 3

-----------------------------------------------------------------------------
(* Commit epochs and installation *)

\* C29: the write_epoch stamped on a record is strictly greater than the value
\* the global epoch had when the record was installed; so a linearized reader
\* whose epoch was obtained before the installation (and is therefore at most
\* that value) never finds the record with a write_epoch at or below its epoch,
\* whoever won the commit CAS.
C29_CommitAfterInstall ==
    /\ \A s \in 1..MaxSegs :
         seg[s].write_epoch # 0 => seg[s].write_epoch > seg[s].installed_at
    /\ \A t \in Threads : \A i \in 1..Len(ops[t]) :
         LET o == ops[t][i] IN
         (o.kind = "get" /\ o.seen # 0 /\ seg[o.ptr].st # "freed"
            /\ o.epoch <= seg[o.ptr].installed_at)
           => o.seen > o.epoch

\* a reader obtained its epoch, the record was installed after that, and the
\* reader itself committed it and compared the write_epoch with its epoch
C29_Witness ==
    \E t \in Threads :
      /\ Len(ops[t]) > 0 /\ LastOp(t).kind = "get" /\ LastOp(t).done
      /\ LastOp(t).ptr # NULL /\ LastOp(t).seen # 0
      /\ LastOp(t).epoch <= seg[LastOp(t).ptr].installed_at
      /\ loc[t].ptr = NULL
      /\ seg[LastOp(t).ptr].st # "freed"
      /\ \E w \in Threads : pc[w] = "c_faa" /\ loc[w].ptr = LastOp(t).ptr

-----------------------------------------------------------------------------
(* Who holds a cell index *)

\* thread t holds index i of segment s for its cell CAS
HoldsCell(t, s, i) ==
    /\ pc[t] \in {"e_cell_cas", "d_cell_cas"}
    /\ loc[t].segment = s /\ loc[t].cur_ix = i

\* C30: no index of a segment is handed out twice by the fetch-adds on
\* enqueue_index, nor twice by those on dequeue_index; an enqueuer's cell CAS
\* fails only on a cell a dequeuer marked TOOSLOW, and a dequeuer's CAS fails
\* only on a cell that is USED and holds an item handed to some enqueue.
C30_OneHolderPerCell ==
    /\ [](\A t, u \in Threads : \A s \in 1..MaxSegs :
            (t # u /\ pc[t] = pc[u] /\ HoldsCell(t, s, loc[t].cur_ix))
              => ~HoldsCell(u, s, loc[t].cur_ix))
    /\ [][\A s \in 1..MaxSegs :
            seg[s].st # "none" =>
              /\ seg'[s].enqueue_index >= seg[s].enqueue_index
              /\ seg'[s].dequeue_index >= seg[s].dequeue_index
              /\ \A t \in Threads :
                   (pc'[t] # pc[t] /\ loc'[t].segment = s) =>
                     /\ pc'[t] = "e_cell_cas" =>
                          /\ loc'[t].cur_ix = seg[s].enqueue_index
                          /\ seg'[s].enqueue_index > seg[s].enqueue_index
                     /\ pc'[t] = "d_cell_cas" =>
                          /\ loc'[t].cur_ix = seg[s].dequeue_index
                          /\ seg'[s].dequeue_index > seg[s].dequeue_index]_vars
    /\ [][\A t \in Threads :
            /\ (pc[t] = "e_cell_cas" /\ pc'[t] = "e_faa") =>
                 /\ loc[t].cur_ix \in DOMAIN seg[loc[t].segment].cells
                 /\ seg[loc[t].segment].cells[loc[t].cur_ix] = too_slow_marker
            /\ (pc[t] = "d_cell_cas" /\ pc'[t] = "d_len") =>
                 /\ seg[loc[t].segment].cells[loc[t].cur_ix].state = QUEUE_USED
                 /\ loc'[t].ret \in EnqItems]_vars

-----------------------------------------------------------------------------
(* The hash table lowhat0                                                    *)
(*                                                                           *)
(* Only lowhat0.h (the types and the design notes) is at hand; the           *)
(* operations follow the written description of the table: bucket            *)
(* acquisition by linear probing, record install with the wait-free          *)
(* treatment of a lost CAS, delete, read, migration and view.  Records and   *)
(* stores are mmm allocations in the heap `seg`; the epochs, the commit and  *)
(* the retirement are those of mmm.h.  A reservation store is taken to be in *)
(* shared memory when the call returns from mmm_start_basic_op or            *)
(* mmm_start_linearized_op, as in the queue's runs.                          *)

\* log2 of the number of buckets of the first store
HatSizeLog == 2

\* a record: the mmm header fields and the {item, flag} payload with its link
lowhat_record(item, flag, next, create_epoch) ==
    [item |-> item, flag |-> flag, next |-> next, create_epoch |-> create_epoch,
     kind |-> "record"] @@ mmm_alloc

\* a store of `size` buckets, all unreserved (hv zero, no record, not frozen);
\* the threshold is 75% of the number of buckets
lowhat0_store_new(size) ==
    [last_slot |-> size - 1, threshold |-> (size * 3) \div 4, used_count |-> 0,
     del_count |-> 0,
     hist_buckets |-> [i \in 0..(size - 1) |-> [hv |-> 0, head |-> NULL, moving |-> FALSE]],
     store_next |-> NULL, kind |-> "store"] @@ mmm_alloc

\* faulty variant of mmm_get_create_epoch: the record's own write_epoch
mmm_get_create_epoch_own(header) == header.write_epoch

\* header->create_epoch ? header->create_epoch : header->write_epoch
mmm_get_create_epoch(header) ==
    IF header.create_epoch # 0 THEN header.create_epoch ELSE header.write_epoch

\* faulty variant of mmm_retire_unused: the region is never freed
mmm_retire_unused_never(heap, p) == heap

\* free(): the region goes back to the allocator
mmm_retire_unused(heap, p) == [heap EXCEPT ![p] = MmmNoRecord]

\* the first slot probed for hv in a store of last_slot + 1 buckets, and the next
hatrack_bucket_index(hv, last_slot) == hv % (last_slot + 1)
NextSlot(bix, last_slot) == (bix + 1) % (last_slot + 1)

\* 64-bit words are kept as four 16-bit limbs, least significant first.
\* (a + b - c) mod 2^64: unsigned addition and subtraction as C computes them
AddSub64(a, b, c) ==
    LET t1 == a[1] + b[1] - c[1]
        t2 == a[2] + b[2] - c[2] + (t1 \div 65536)
        t3 == a[3] + b[3] - c[3] + (t2 \div 65536)
        t4 == a[4] + b[4] - c[4] + (t3 \div 65536)
    IN <<t1 % 65536, t2 % 65536, t3 % 65536, t4 % 65536>>

\* return item1->sort_epoch - item2->sort_epoch: the 64-bit difference
\* converted to int, which keeps its low 32 bits as a two's complement value
hatrack_quicksort_cmp(item1, item2) ==
    LET d == AddSub64(item1.sort_epoch, <<0, 0, 0, 0>>, item2.sort_epoch) IN
    IF d[2] >= 32768 THEN (d[2] - 65536) * 65536 + d[1] ELSE d[2] * 65536 + d[1]

\* qsort with hatrack_quicksort_cmp: insertion of x before the first entry it
\* does not compare greater than; the epochs of a run are below 2^31
RECURSIVE SortInsert(_, _)
SortInsert(x, s) ==
    LET word(e) == [sort_epoch |-> <<e % 65536, e \div 65536, 0, 0>>] IN
    IF s = <<>> THEN <<x>>
    ELSE IF hatrack_quicksort_cmp(word(x.sort_epoch), word(Head(s).sort_epoch)) <= 0
         THEN <<x>> \o s
    ELSE <<Head(s)>> \o SortInsert(x, Tail(s))

RECURSIVE SortView(_)
SortView(s) == IF s = <<>> THEN <<>> ELSE SortInsert(Head(s), SortView(Tail(s)))

\* a scripted call; `wait` is the number of calls the other threads must have
\* completed before it starts (the joins of a test)
HatOp(op, hv, item, wait) ==
    [op |-> op, hv |-> hv, item |-> item, overwrite_ok |-> TRUE, wait |-> wait]

Script(s1, s2, s3) == [script |-> (1 :> s1 @@ 2 :> s2 @@ 3 :> s3)]

\* put, get, remove, get on one key, beside a put of a second key that probes
\* into the same slot, and a late reader
RoundTripRuns ==
    { Script(<<HatOp("put", 1, 11, 0), HatOp("get", 1, 0, 0),
               HatOp("remove", 1, 0, 0), HatOp("get", 1, 0, 0)>>,
             <<HatOp("put", 5, 21, 0)>>,
             <<HatOp("get", 1, 0, 3)>>) }

\* two puts race on one key; after the join a get and a view
RaceRuns ==
    { Script(<<HatOp("put", 1, 11, 0)>>,
             <<HatOp("get", 1, 0, 2), HatOp("view", 0, 0, 2)>>,
             <<HatOp("put", 1, 31, 0)>>) }

\* three keys inserted in an order that is not the bucket order, the second
\* overwritten, then a view; a second view runs whenever it likes
ViewRuns ==
    { Script(<<HatOp("put", 3, 13, 0), HatOp("put", 1, 11, 0), HatOp("put", 2, 12, 0),
               HatOp("put", 1, 14, 0), HatOp("view", 0, 0, 0)>>,
             <<HatOp("view", 0, 0, 0)>>,
             <<>>) }

\* the store is filled to its threshold, then two more keys arrive side by side
\* with a reader of an earlier key; and a store that reaches its threshold
\* through removes
MigrateRuns ==
    { Script(<<HatOp("put", 3, 13, 0), HatOp("put", 1, 11, 0), HatOp("put", 2, 12, 0),
               HatOp("put", 4, 14, 0)>>,
             <<HatOp("put", 5, 21, 3)>>,
             <<HatOp("get", 2, 0, 3)>>),
      Script(<<HatOp("put", 3, 13, 0), HatOp("remove", 3, 0, 0), HatOp("put", 1, 11, 0),
               HatOp("remove", 1, 0, 0), HatOp("put", 2, 12, 0), HatOp("get", 2, 0, 0),
               HatOp("get", 1, 0, 0)>>,
             <<HatOp("get", 3, 0, 4)>>,
             <<>>) }

\* a remove races a put on a key that is present; a get after both
LoseRuns ==
    { Script(<<HatOp("put", 1, 11, 0), HatOp("remove", 1, 0, 0)>>,
             <<HatOp("get", 1, 0, 3)>>,
             <<HatOp("put", 1, 31, 1)>>) }

HatRuns == RoundTripRuns \cup RaceRuns \cup ViewRuns \cup MigrateRuns \cup LoseRuns

\* the locals of a table call
HatLoc0 ==
    [store |-> NULL, bix |-> 0, probes |-> 0, head |-> NULL, epoch |-> 0,
     new_size |-> 0, new_store |-> NULL, mig_i |-> 0, mig_bix |-> 0, view |-> <<>>]
    @@ MmmLoc0

\* the record of a table call: its arguments, what it returned, whether its
\* install lost the CAS, whether it ran a migration, the value of
\* used_count + del_count it found when it first reserved a bucket with the
\* threshold of that store (threshold 0: none reserved), and the calls of each
\* thread that had returned when it started
HatCall(c, pr) ==
    [kind |-> c.op, hv |-> c.hv, item |-> c.item, ret |-> NULL, found |-> FALSE,
     lost |-> FALSE, migrated |-> FALSE, fill |-> 0, threshold |-> 0, view |-> <<>>, pr |-> pr,
     epoch |-> 0, done |-> FALSE]

\* lowhat0_init: one store of 2^HatSizeLog buckets is current
HatInit ==
    /\ cfg \in HatRuns
    /\ default_segment_size = 0
    /\ seg = [s \in 1..MaxSegs |->
                IF s = 1 THEN lowhat0_store_new(2 ^ HatSizeLog) ELSE MmmNoRecord]
    /\ store_current = 1
    /\ segments = [enq |-> NULL, deq |-> NULL]
    /\ help_needed = 0
    /\ len = 0
    /\ mmm_epoch = MMM_EPOCH_FIRST
    /\ mmm_reservations = [t \in Threads |-> MMM_EPOCH_UNRESERVED]
    /\ store_buffer = [t \in Threads |-> <<>>]
    /\ mmm_retire_list = [t \in Threads |-> <<>>]
    /\ mmm_retire_ctr = [t \in Threads |-> 0]
    /\ pc = [t \in Threads |-> "idle"]
    /\ loc = [t \in Threads |-> HatLoc0]
    /\ ops = [t \in Threads |-> <<>>]
    /\ uaf = FALSE
    /\ oob = FALSE
    /\ cleaned = FALSE

\* what no table call touches
QueueState == <<segments, help_needed, len, default_segment_size, store_buffer, oob,
                cleaned>>

\* the calls of thread u that have returned
DoneCalls(u) == {i \in 1..Len(ops[u]) : ops[u][i].done}

Writing(t) == LastOp(t).kind \in {"put", "remove"}

\* the bucket the caller is at
AtBucket(t) == seg[loc[t].store].hist_buckets[loc[t].bix]

\* the call returns (item, found) at its mmm_end_op
Returns(t, item, found) ==
    [ops EXCEPT ![t][Len(ops[t])].ret = item, ![t][Len(ops[t])].found = found]

\* the next call of the script starts: mmm_start_basic_op for put and remove,
\* mmm_start_linearized_op for get and view
TableStart(t) ==
    LET c == cfg.script[t][Len(ops[t]) + 1] IN
    /\ pc[t] = "idle"
    /\ Len(ops[t]) < Len(cfg.script[t])
    /\ Cardinality(UNION {{<<u, i>> : i \in DoneCalls(u)} : u \in Threads \ {t}}) >= c.wait
    /\ ops' = [ops EXCEPT ![t] =
                 Append(@, [HatCall(c, [u \in Threads |-> Cardinality(DoneCalls(u))])
                              EXCEPT !.epoch = mmm_epoch])]
    /\ mmm_reservations' = [mmm_reservations EXCEPT ![t] = mmm_epoch]
    /\ loc' = [loc EXCEPT ![t] = [HatLoc0 EXCEPT !.epoch = mmm_epoch]]
    /\ pc' = [pc EXCEPT ![t] = "t_store"]
    /\ UNCHANGED <<cfg, store_current, QueueState, seg, mmm_epoch, mmm_retire_list,
                   mmm_retire_ctr, uaf>>

\* store = atomic_load(&self->store_current), and the first slot to probe
TableLoadStore(t) ==
    LET s == store_current IN
    /\ pc[t] = "t_store"
    /\ loc' = [loc EXCEPT ![t].store = s,
                          ![t].bix = IF LastOp(t).kind = "view" THEN 0
                                     ELSE hatrack_bucket_index(LastOp(t).hv,
                                                               seg[s].last_slot),
                          ![t].probes = 0]
    /\ pc' = [pc EXCEPT ![t] = IF LastOp(t).kind = "view" THEN "v_bucket" ELSE "t_probe"]
    /\ uaf' = (uaf \/ Touch(s))
    /\ UNCHANGED <<cfg, store_current, QueueState, seg, mmm_epoch, mmm_reservations,
                   mmm_retire_list, mmm_retire_ctr, ops>>

\* one slot of the linear probe.  A writer reserves an unreserved bucket with
\* CAS(bucket.hv, 0, hv); a reader stops at an unreserved bucket.  After
\* last_slot + 1 slots a writer migrates and a reader reports not found.
TableProbe(t) ==
    LET s == loc[t].store
        b == AtBucket(t)
        hv == LastOp(t).hv
    IN
    /\ pc[t] = "t_probe"
    /\ uaf' = (uaf \/ Touch(s))
    /\ IF loc[t].probes > seg[s].last_slot
       THEN /\ pc' = [pc EXCEPT ![t] = IF Writing(t) THEN "m_size" ELSE "p_end_op"]
            /\ UNCHANGED <<seg, loc>>
       ELSE IF b.hv = 0 /\ Writing(t)
       THEN /\ seg' = [seg EXCEPT ![s].hist_buckets[loc[t].bix].hv = hv]
            /\ pc' = [pc EXCEPT ![t] = "t_used"]
            /\ loc' = loc
       ELSE IF b.hv = hv
       THEN /\ pc' = [pc EXCEPT ![t] = "t_head"]
            /\ UNCHANGED <<seg, loc>>
       ELSE IF b.hv = 0
       THEN /\ pc' = [pc EXCEPT ![t] = "p_end_op"]
            /\ UNCHANGED <<seg, loc>>
       ELSE /\ loc' = [loc EXCEPT ![t].bix = NextSlot(@, seg[s].last_slot),
                                  ![t].probes = @ + 1]
            /\ UNCHANGED <<seg, pc>>
    /\ UNCHANGED <<cfg, store_current, QueueState, mmm_epoch, mmm_reservations,
                   mmm_retire_list, mmm_retire_ctr, ops>>

\* faulty variant of StoreFull: the count after the reservation is compared
StoreFullAfter(used_count, del_count, threshold) ==
    used_count + 1 + del_count >= threshold

\* the store is threshold full, by used_count + del_count as the reserving
\* fetch-add found them
StoreFull(used_count, del_count, threshold) == used_count + del_count >= threshold

\* the bucket was reserved: fetch-add on used_count; a store that was already
\* threshold full is migrated before the write goes on
TableUsed(t) ==
    LET s == loc[t].store IN
    /\ pc[t] = "t_used"
    /\ seg' = [seg EXCEPT ![s].used_count = FetchAdd(@, 1)]
    /\ ops' = IF LastOp(t).threshold # 0 THEN ops
              ELSE [ops EXCEPT ![t][Len(ops[t])].fill = seg[s].used_count + seg[s].del_count,
                               ![t][Len(ops[t])].threshold = seg[s].threshold]
    /\ pc' = [pc EXCEPT ![t] =
                 IF StoreFull(seg[s].used_count, seg[s].del_count, seg[s].threshold)
                 THEN "m_size" ELSE "t_head"]
    /\ uaf' = (uaf \/ Touch(s))
    /\ UNCHANGED <<cfg, store_current, QueueState, mmm_epoch, mmm_reservations,
                   mmm_retire_list, mmm_retire_ctr, loc>>

\* head = atomic_load(&bucket->head).  A writer that finds the bucket frozen
\* migrates; a remove of an empty bucket and a read of one report not found;
\* otherwise the head record is handed to mmm_help_commit.
TableHead(t) ==
    LET b == AtBucket(t) IN
    /\ pc[t] = "t_head"
    /\ uaf' = (uaf \/ Touch(loc[t].store))
    /\ IF Writing(t) /\ b.moving
       THEN /\ pc' = [pc EXCEPT ![t] = "m_size"]
            /\ loc' = loc
       ELSE /\ loc' = [loc EXCEPT ![t].head = b.head, ![t].ptr = b.head]
            /\ pc' = [pc EXCEPT ![t] =
                         IF b.head # NULL THEN "h_load"
                         ELSE IF LastOp(t).kind = "put" THEN "t_install"
                         ELSE "p_end_op"]
    /\ UNCHANGED <<cfg, store_current, QueueState, seg, mmm_epoch, mmm_reservations,
                   mmm_retire_list, mmm_retire_ctr, ops>>

\* the record is the bucket's entry at the reader's epoch
Visible(r, epoch) == r.write_epoch <= epoch /\ r.flag = "USED"

\* after mmm_help_commit(record).  A reader skips a record with
\* write_epoch > epoch and takes the first one at or below it: a get returns
\* its item unless it is DELETED, a view records it if it is USED and goes to
\* the next bucket.  A put without overwrite_ok returns a USED head's item, a
\* remove of a DELETED head reports not found; other writes install.
TableCompare(t) ==
    LET p == loc[t].ptr
        r == seg[p]
        c == cfg.script[t][Len(ops[t])]
    IN
    /\ pc[t] = "g_compare"
    /\ uaf' = (uaf \/ Touch(p))
    /\ IF Writing(t)
       THEN /\ loc' = loc
            /\ IF c.op = "put" /\ r.flag = "USED" /\ ~c.overwrite_ok
               THEN /\ ops' = Returns(t, r.item, TRUE)
                    /\ pc' = [pc EXCEPT ![t] = "p_end_op"]
               ELSE IF c.op = "remove" /\ r.flag = "DELETED"
               THEN /\ ops' = ops
                    /\ pc' = [pc EXCEPT ![t] = "p_end_op"]
               ELSE /\ ops' = ops
                    /\ pc' = [pc EXCEPT ![t] = "t_install"]
       ELSE IF r.write_epoch > loc[t].epoch /\ r.next # NULL
       THEN /\ loc' = [loc EXCEPT ![t].ptr = r.next]
            /\ pc' = [pc EXCEPT ![t] = "h_load"]
            /\ ops' = ops
       ELSE IF c.op = "get"
       THEN /\ loc' = loc
            /\ pc' = [pc EXCEPT ![t] = "p_end_op"]
            /\ ops' = IF Visible(r, loc[t].epoch) THEN Returns(t, r.item, TRUE) ELSE ops
       ELSE /\ loc' = [loc EXCEPT ![t].bix = @ + 1,
                                  ![t].view =
                                      IF Visible(r, loc[t].epoch)
                                      THEN Append(@, [hv |-> AtBucket(t).hv,
                                                      item |-> r.item,
                                                      sort_epoch |->
                                                          mmm_get_create_epoch(r)])
                                      ELSE @]
            /\ pc' = [pc EXCEPT ![t] = "v_bucket"]
            /\ ops' = ops
    /\ UNCHANGED <<cfg, store_current, QueueState, seg, mmm_epoch, mmm_reservations,
                   mmm_retire_list, mmm_retire_ctr>>

\* the create_epoch an overwriting record takes over from the record it
\* replaces; a first insert, or one over a DELETED record, keeps zero
InheritedEpoch(head) ==
    IF head # NULL /\ seg[head].flag = "USED"
    THEN mmm_get_create_epoch(seg[head]) ELSE 0

\* CAS(bucket.head, expected, desired); a frozen bucket never compares equal
HeadCAS(bucket, expected, desired) ==
    IF bucket.head = expected /\ ~bucket.moving
    THEN [bucket EXCEPT !.head = desired] ELSE bucket

\* record install: r = mmm_alloc, r.next = head, CAS(bucket.head, head, r).  The
\* winner goes on to commit.  A loser frees r with mmm_retire_unused; it
\* migrates and retries if the bucket was frozen, and otherwise returns as if
\* its write had come just before the winner's.
TableInstall(t) ==
    LET s == loc[t].store
        b == AtBucket(t)
        head == loc[t].head
        c == LastOp(t)
        r == FreshSeg
        rec == [lowhat_record(IF c.kind = "put" THEN c.item ELSE NULL,
                              IF c.kind = "put" THEN "USED" ELSE "DELETED",
                              head, InheritedEpoch(head))
                  EXCEPT !.installed_at = mmm_epoch]
        allocated == [seg EXCEPT ![r] = rec]
        after == HeadCAS(b, head, r)
    IN
    /\ pc[t] = "t_install"
    /\ HaveFresh
    /\ uaf' = (uaf \/ Touch(s) \/ (head # NULL /\ Touch(head)))
    /\ IF after.head = r
       THEN /\ seg' = [allocated EXCEPT ![s].hist_buckets[loc[t].bix] = after]
            /\ loc' = [loc EXCEPT ![t].ptr = r, ![t].old = head]
            /\ ops' = IF head # NULL /\ seg[head].flag = "USED"
                      THEN Returns(t, seg[head].item, TRUE) ELSE ops
            /\ pc' = [pc EXCEPT ![t] = IF c.kind = "remove" THEN "t_del" ELSE "c_faa"]
       ELSE /\ seg' = mmm_retire_unused(allocated, r)
            /\ loc' = loc
            /\ IF b.moving
               THEN /\ ops' = ops
                    /\ pc' = [pc EXCEPT ![t] = "m_size"]
               ELSE /\ ops' = [Returns(t, c.item, TRUE) EXCEPT ![t][Len(ops[t])].lost = TRUE]
                    /\ pc' = [pc EXCEPT ![t] = "p_end_op"]
    /\ UNCHANGED <<cfg, store_current, QueueState, mmm_epoch, mmm_reservations,
                   mmm_retire_list, mmm_retire_ctr>>

\* delete: fetch-add on del_count once the DELETED record is installed
TableDelCount(t) ==
    LET s == loc[t].store IN
    /\ pc[t] = "t_del"
    /\ seg' = [seg EXCEPT ![s].del_count = FetchAdd(@, 1)]
    /\ pc' = [pc EXCEPT ![t] = "c_faa"]
    /\ uaf' = (uaf \/ Touch(s))
    /\ UNCHANGED <<cfg, store_current, QueueState, mmm_epoch, mmm_reservations,
                   mmm_retire_list, mmm_retire_ctr, loc, ops>>

\* a view visits the buckets in index order; it walks the records of each
\* bucket that has any
ViewBucket(t) ==
    LET s == loc[t].store IN
    /\ pc[t] = "v_bucket"
    /\ uaf' = (uaf \/ Touch(s))
    /\ IF loc[t].bix > seg[s].last_slot
       THEN /\ pc' = [pc EXCEPT ![t] = "p_end_op"]
            /\ loc' = loc
       ELSE IF AtBucket(t).head = NULL
       THEN /\ loc' = [loc EXCEPT ![t].bix = @ + 1]
            /\ pc' = pc
       ELSE /\ loc' = [loc EXCEPT ![t].ptr = AtBucket(t).head]
            /\ pc' = [pc EXCEPT ![t] = "h_load"]
    /\ UNCHANGED <<cfg, store_current, QueueState, seg, mmm_epoch, mmm_reservations,
                   mmm_retire_list, mmm_retire_ctr, ops>>

\* mmm_end_op; a view sorts what it collected with hatrack_quicksort_cmp
TableEndOp(t) ==
    /\ pc[t] = "p_end_op"
    /\ mmm_reservations' = [mmm_reservations EXCEPT ![t] = MMM_EPOCH_UNRESERVED]
    /\ seg' = Unguard(t)
    /\ ops' = [ops EXCEPT ![t][Len(ops[t])].done = TRUE,
                          ![t][Len(ops[t])].view = SortView(loc[t].view)]
    /\ loc' = [loc EXCEPT ![t] = HatLoc0]
    /\ pc' = [pc EXCEPT ![t] = "idle"]
    /\ UNCHANGED <<cfg, store_current, QueueState, mmm_epoch, mmm_retire_list,
                   mmm_retire_ctr, uaf>>

\* sizing: the same capacity if used_count - del_count is at most 25% of it,
\* else twice the capacity
NewStoreSize(used_count, del_count, size) ==
    IF used_count - del_count <= size \div 4 THEN size ELSE 2 * size

\* the caller is back in its write, now against the store it migrated to
Retarget(l, hv) ==
    [l EXCEPT !.store = l.new_store,
              !.bix = hatrack_bucket_index(hv, seg[l.new_store].last_slot),
              !.probes = 0, !.head = NULL, !.ptr = NULL, !.new_store = NULL,
              !.new_size = 0, !.mig_i = 0, !.mig_bix = 0]

\* migration starts: adopt the successor if there is one, else choose its size
MigSize(t) ==
    LET s == loc[t].store IN
    /\ pc[t] = "m_size"
    /\ ops' = [ops EXCEPT ![t][Len(ops[t])].migrated = TRUE]
    /\ IF seg[s].store_next # NULL
       THEN /\ loc' = [loc EXCEPT ![t].new_store = seg[s].store_next, ![t].mig_i = 0]
            /\ pc' = [pc EXCEPT ![t] = "m_freeze"]
       ELSE /\ loc' = [loc EXCEPT ![t].new_size =
                          NewStoreSize(seg[s].used_count, seg[s].del_count,
                                       seg[s].last_slot + 1)]
            /\ pc' = [pc EXCEPT ![t] = "m_next"]
    /\ uaf' = (uaf \/ Touch(s))
    /\ UNCHANGED <<cfg, store_current, QueueState, seg, mmm_epoch, mmm_reservations,
                   mmm_retire_list, mmm_retire_ctr>>

\* CAS(store_next, NULL, new_store); a loser frees its store and adopts the
\* winner's
MigNext(t) ==
    LET s == loc[t].store
        n == FreshSeg
    IN
    /\ pc[t] = "m_next"
    /\ HaveFresh
    /\ IF seg[s].store_next = NULL
       THEN /\ seg' = [seg EXCEPT ![n] = lowhat0_store_new(loc[t].new_size),
                                  ![s].store_next = n]
            /\ loc' = [loc EXCEPT ![t].new_store = n, ![t].mig_i = 0]
       ELSE /\ seg' = mmm_retire_unused([seg EXCEPT ![n] =
                                             lowhat0_store_new(loc[t].new_size)], n)
            /\ loc' = [loc EXCEPT ![t].new_store = seg[s].store_next, ![t].mig_i = 0]
    /\ pc' = [pc EXCEPT ![t] = "m_freeze"]
    /\ uaf' = (uaf \/ Touch(s))
    /\ UNCHANGED <<cfg, store_current, QueueState, mmm_epoch, mmm_reservations,
                   mmm_retire_list, mmm_retire_ctr, ops>>

\* freeze: the next bucket of the old store is marked as moving
MigFreeze(t) ==
    LET s == loc[t].store
        i == loc[t].mig_i
    IN
    /\ pc[t] = "m_freeze"
    /\ seg' = [seg EXCEPT ![s].hist_buckets[i].moving = TRUE]
    /\ IF i + 1 > seg[s].last_slot
       THEN /\ loc' = [loc EXCEPT ![t].mig_i = 0]
            /\ pc' = [pc EXCEPT ![t] = "m_copy"]
       ELSE /\ loc' = [loc EXCEPT ![t].mig_i = i + 1]
            /\ pc' = pc
    /\ uaf' = (uaf \/ Touch(s))
    /\ UNCHANGED <<cfg, store_current, QueueState, mmm_epoch, mmm_reservations,
                   mmm_retire_list, mmm_retire_ctr, ops>>

\* the record a bucket of the old store hands to the new store: none if the
\* bucket holds no record or its newest record is DELETED
Migrated(b) == IF b.head # NULL /\ seg[b.head].flag = "USED" THEN b.head ELSE NULL

\* copy: the next bucket of the old store; buckets with nothing to hand over
\* are passed by, after the last one the new store is published
MigCopy(t) ==
    LET s == loc[t].store
        i == loc[t].mig_i
        b == seg[s].hist_buckets[i]
    IN
    /\ pc[t] = "m_copy"
    /\ IF i > seg[s].last_slot
       THEN /\ pc' = [pc EXCEPT ![t] = "m_publish"]
            /\ loc' = loc
            /\ uaf' = (uaf \/ Touch(s))
       ELSE IF Migrated(b) = NULL
       THEN /\ loc' = [loc EXCEPT ![t].mig_i = i + 1]
            /\ pc' = pc
            /\ uaf' = (uaf \/ Touch(s) \/ (b.head # NULL /\ Touch(b.head)))
       ELSE /\ loc' = [loc EXCEPT ![t].mig_bix =
                          hatrack_bucket_index(b.hv, seg[loc[t].new_store].last_slot)]
            /\ pc' = [pc EXCEPT ![t] = "m_claim"]
            /\ uaf' = (uaf \/ Touch(s) \/ Touch(b.head) \/ Touch(loc[t].new_store))
    /\ UNCHANGED <<cfg, store_current, QueueState, seg, mmm_epoch, mmm_reservations,
                   mmm_retire_list, mmm_retire_ctr, ops>>

\* copy: one slot of the linear probe for the bucket's hv in the new store
MigClaim(t) ==
    LET n == loc[t].new_store
        hv == seg[loc[t].store].hist_buckets[loc[t].mig_i].hv
        nb == seg[n].hist_buckets[loc[t].mig_bix]
    IN
    /\ pc[t] = "m_claim"
    /\ IF nb.hv = 0
       THEN /\ seg' = [seg EXCEPT ![n].hist_buckets[loc[t].mig_bix].hv = hv]
            /\ pc' = [pc EXCEPT ![t] = "m_used"]
            /\ loc' = loc
       ELSE IF nb.hv = hv
       THEN /\ pc' = [pc EXCEPT ![t] = "m_head"]
            /\ UNCHANGED <<seg, loc>>
       ELSE /\ loc' = [loc EXCEPT ![t].mig_bix = NextSlot(@, seg[n].last_slot)]
            /\ UNCHANGED <<seg, pc>>
    /\ uaf' = (uaf \/ Touch(n))
    /\ UNCHANGED <<cfg, store_current, QueueState, mmm_epoch, mmm_reservations,
                   mmm_retire_list, mmm_retire_ctr, ops>>

\* copy: the bucket of the new store was reserved, fetch-add on its used_count
MigUsed(t) ==
    LET n == loc[t].new_store IN
    /\ pc[t] = "m_used"
    /\ seg' = [seg EXCEPT ![n].used_count = FetchAdd(@, 1)]
    /\ pc' = [pc EXCEPT ![t] = "m_head"]
    /\ uaf' = (uaf \/ Touch(n))
    /\ UNCHANGED <<cfg, store_current, QueueState, mmm_epoch, mmm_reservations,
                   mmm_retire_list, mmm_retire_ctr, loc, ops>>

\* copy: CAS(new bucket.head, NULL, migrated record), then on to the next bucket
MigHead(t) ==
    LET n == loc[t].new_store
        b == seg[loc[t].store].hist_buckets[loc[t].mig_i]
        nb == seg[n].hist_buckets[loc[t].mig_bix]
    IN
    /\ pc[t] = "m_head"
    /\ seg' = [seg EXCEPT ![n].hist_buckets[loc[t].mig_bix] = HeadCAS(nb, NULL, Migrated(b))]
    /\ loc' = [loc EXCEPT ![t].mig_i = @ + 1]
    /\ pc' = [pc EXCEPT ![t] = "m_copy"]
    /\ uaf' = (uaf \/ Touch(n) \/ Touch(loc[t].store))
    /\ UNCHANGED <<cfg, store_current, QueueState, mmm_epoch, mmm_reservations,
                   mmm_retire_list, mmm_retire_ctr, ops>>

\* publish: CAS(store_current, old, new); the winner goes on to retire the old
\* store, a loser returns to its write
MigPublish(t) ==
    /\ pc[t] = "m_publish"
    /\ IF store_current = loc[t].store
       THEN /\ store_current' = loc[t].new_store
            /\ loc' = loc
            /\ pc' = [pc EXCEPT ![t] = "m_retire"]
       ELSE /\ store_current' = store_current
            /\ loc' = [loc EXCEPT ![t] = Retarget(loc[t], LastOp(t).hv)]
            /\ pc' = [pc EXCEPT ![t] = "t_probe"]
    /\ UNCHANGED <<cfg, QueueState, seg, mmm_epoch, mmm_reservations, mmm_retire_list,
                   mmm_retire_ctr, ops, uaf>>

\* mmm_retire(old store), with the scan that is due, then back to the write
MigRetire(t) ==
    LET s == loc[t].store
        back == Retarget(loc[t], LastOp(t).hv)
    IN
    /\ pc[t] = "m_retire"
    /\ seg' = [seg EXCEPT ![s].retire_epoch = mmm_epoch, ![s].st = "retired",
                          ![s].guards = {u \in Threads :
                                            mmm_reservations[u] # MMM_EPOCH_UNRESERVED}]
    /\ mmm_retire_list' = [mmm_retire_list EXCEPT ![t] = <<s>> \o @]
    /\ IF mmm_retire_ctr[t] + 1 >= MMM_RETIRE_FREQ
       THEN /\ mmm_retire_ctr' = [mmm_retire_ctr EXCEPT ![t] = 0]
            /\ loc' = [loc EXCEPT ![t] = ScanStart(back, "t_probe")]
            /\ pc' = [pc EXCEPT ![t] = "scan_read"]
       ELSE /\ mmm_retire_ctr' = [mmm_retire_ctr EXCEPT ![t] = @ + 1]
            /\ loc' = [loc EXCEPT ![t] = back]
            /\ pc' = [pc EXCEPT ![t] = "t_probe"]
    /\ uaf' = (uaf \/ Touch(s))
    /\ UNCHANGED <<cfg, store_current, QueueState, mmm_epoch, mmm_reservations, ops>>

HatNext ==
    \E t \in Threads :
      \/ TableStart(t)
      \/ TableLoadStore(t)
      \/ TableProbe(t)
      \/ TableUsed(t)
      \/ TableHead(t)
      \/ HelpLoad(t)
      \/ HelpFetchAdd(t)
      \/ HelpCAS(t)
      \/ TableCompare(t)
      \/ TableInstall(t)
      \/ TableDelCount(t)
      \/ CommitFetchAdd(t)
      \/ CommitCAS(t)
      \/ PutRetire(t)
      \/ ScanRead(t)
      \/ ScanFree(t)
      \/ ViewBucket(t)
      \/ TableEndOp(t)
      \/ MigSize(t)
      \/ MigNext(t)
      \/ MigFreeze(t)
      \/ MigCopy(t)
      \/ MigClaim(t)
      \/ MigUsed(t)
      \/ MigHead(t)
      \/ MigPublish(t)
      \/ MigRetire(t)

HatSpec == HatInit /\ [][HatNext]_vars

-----------------------------------------------------------------------------
(* The table's calls in real-time order *)

Calls == {c \in Threads \X (1..MaxSegs) : c[2] <= Len(ops[c[1]])}
Call(c) == ops[c[1]][c[2]]

\* call a had returned when call b started
Before(a, b) == Call(b).pr[a[1]] >= a[2]

WritesTo(h) == {c \in Calls : Call(c).kind \in {"put", "remove"} /\ Call(c).hv = h}

\* the writes to g's key that returned before g started, those of them that no
\* other such write follows, and the writes to the key that ran beside g
Prior(g) == {w \in WritesTo(Call(g).hv) : Before(w, g)}
LastPrior(g) == {w \in Prior(g) : \A x \in Prior(g) \ {w} : Before(x, w)}
Beside(g) == {w \in WritesTo(Call(g).hv) : w # g /\ ~Before(w, g) /\ ~Before(g, w)}

DoneGets == {c \in Calls : Call(c).kind = "get" /\ Call(c).done}

\* C25: a get that returned, with no write to its key beside it and one last
\* write to the key before it, returns that write's item with found=true if
\* the write was a put, and not-found if it was a remove.
C25_RoundTrip ==
    \A g \in DoneGets :
      Beside(g) = {} =>
        \A w \in LastPrior(g) :
          IF Call(w).kind = "put"
          THEN Call(g).found /\ Call(g).ret = Call(w).item
          ELSE ~Call(g).found

\* the writer's get after its put found the item and its get after its remove
\* found nothing, while the put of the colliding key ran beside the first put
C25_Witness ==
    /\ cfg \in RoundTripRuns
    /\ Len(ops[1]) = 4 /\ ops[1][4].done
    /\ ops[1][2].found /\ ops[1][2].ret = 11
    /\ ~ops[1][4].found
    /\ Len(ops[2]) = 1 /\ ops[2][1].done /\ ops[2][1].pr[1] = 0
    /\ ops[1][2].pr[2] = 0

-----------------------------------------------------------------------------
(* Two puts race on one key *)

DoneViews == {c \in Calls : Call(c).kind = "view" /\ Call(c).done}

\* the writes to key h that returned before call c started and that no other
\* such write came after
Latest(c, h) ==
    LET prior == {w \in WritesTo(h) : Before(w, c)} IN
    {w \in prior : \A x \in prior : ~Before(w, x)}

\* no write to key h ran beside call c
Settled(c, h) == \A w \in WritesTo(h) : Before(w, c) \/ Before(c, w)

\* the entries of a view for key h
EntriesFor(v, h) == {k \in 1..Len(Call(v).view) : Call(v).view[k].hv = h}

\* C26: when the puts to a key have all returned, a get of the key that starts
\* afterwards returns found=true with the item of one of the puts that no
\* other put followed, and a view that starts afterwards holds exactly one
\* entry for the key, with such an item; the get and the view of one thread
\* agree.
C26_RacingPuts ==
    /\ \A g \in DoneGets :
         (Settled(g, Call(g).hv) /\ Latest(g, Call(g).hv) # {}
          /\ \A w \in Latest(g, Call(g).hv) : Call(w).kind = "put")
           => /\ Call(g).found
              /\ \E w \in Latest(g, Call(g).hv) : Call(g).ret = Call(w).item
    /\ \A v \in DoneViews : \A h \in {Call(w).hv : w \in Calls} \ {0} :
         (Settled(v, h) /\ Latest(v, h) # {}
          /\ \A w \in Latest(v, h) : Call(w).kind = "put")
           => /\ Cardinality(EntriesFor(v, h)) = 1
              /\ \A k \in EntriesFor(v, h) :
                   \E w \in Latest(v, h) : Call(v).view[k].item = Call(w).item
    /\ \A g \in DoneGets, v \in DoneViews :
         (cfg \in RaceRuns /\ g[1] = v[1])
           => \A k \in EntriesFor(v, Call(g).hv) : Call(v).view[k].item = Call(g).ret

\* both puts ran side by side, one lost its install, and the get and the view
\* that started after both returned have the winner's item
C26_Witness ==
    /\ cfg \in RaceRuns
    /\ ops[1] # <<>> /\ ops[3] # <<>>
    /\ ops[1][1].done /\ ops[3][1].done
    /\ ops[1][1].pr[3] = 0 /\ ops[3][1].pr[1] = 0
    /\ ops[1][1].lost
    /\ Len(ops[2]) = 2 /\ ops[2][2].done
    /\ ops[2][1].found /\ ops[2][1].ret = 31
    /\ Len(ops[2][2].view) = 1 /\ ops[2][2].view[1].item = 31

-----------------------------------------------------------------------------
(* Migration at the threshold *)

\* the bucket of key h in store s, found as a reader probes; -1 if none
RECURSIVE FindBucket(_, _, _, _)
FindBucket(s, h, bix, probes) ==
    IF probes > seg[s].last_slot \/ seg[s].hist_buckets[bix].hv = 0 THEN -1
    ELSE IF seg[s].hist_buckets[bix].hv = h THEN bix
    ELSE FindBucket(s, h, NextSlot(bix, seg[s].last_slot), probes + 1)

\* what the current store holds for key h: the item of the newest record of
\* its bucket, NULL if there is no bucket, no record or the record is DELETED
Stored(h) ==
    LET s == store_current
        i == FindBucket(s, h, hatrack_bucket_index(h, seg[s].last_slot), 0)
        head == IF i = -1 THEN NULL ELSE seg[s].hist_buckets[i].head
    IN IF head = NULL \/ seg[head].flag = "DELETED" THEN NULL ELSE seg[head].item

\* the writes to key h, all returned, that no other write to h came after
LatestNow(h) == {w \in WritesTo(h) : \A x \in WritesTo(h) : ~Before(w, x)}
AllReturned(h) == \A w \in WritesTo(h) : Call(w).done

\* the calls that ran beside call c
BesideCall(c) == {x \in Calls : x # c /\ ~Before(x, c) /\ ~Before(c, x)}

Reserving == {c \in Calls : Call(c).threshold # 0}

-----------------------------------------------------------------------------
(* The order of a view *)

\* the keys of a view, in its order
ViewKeys(v) == [k \in 1..Len(Call(v).view) |-> Call(v).view[k].hv]

\* the put of key h that returned first, among those call c started after
FirstInsert(c, h) ==
    {w \in WritesTo(h) : Before(w, c) /\ \A x \in WritesTo(h) \ {w} : Before(w, x)}

\* C28: a view lists its keys by first insertion: of two keys whose writes
\* are puts that all returned before the view started, one after the other,
\* the key whose first put returned before the other key's first put started
\* comes first, whichever was written last; an overwriting record reports the
\* create epoch of the record it replaced.
C28_ViewOrder ==
    /\ \A v \in DoneViews :
         \A i, j \in 1..Len(Call(v).view) :
           LET hi == Call(v).view[i].hv
               hj == Call(v).view[j].hv
           IN (/\ \A w \in WritesTo(hi) \cup WritesTo(hj) :
                    Call(w).kind = "put" /\ Before(w, v)
               /\ \E a \in FirstInsert(v, hi) : \E b \in FirstInsert(v, hj) :
                    Before(a, b))
                => i < j
    /\ \A s \in 1..MaxSegs :
         (seg[s].st = "live" /\ seg[s].kind = "record" /\ seg[s].write_epoch # 0
          /\ seg[s].next # NULL /\ seg[seg[s].next].flag = "USED"
          /\ seg[seg[s].next].write_epoch # 0)
           => mmm_get_create_epoch(seg[s]) = mmm_get_create_epoch(seg[seg[s].next])

\* keys 3, 1, 2 were inserted in that order, key 1 was overwritten, and the
\* view that followed lists 3, 1, 2 with the overwriting item, although the
\* record of key 1 has the greatest write_epoch
C28_Witness ==
    /\ cfg \in ViewRuns
    /\ Len(ops[1]) = 5 /\ ops[1][5].done
    /\ ViewKeys(<<1, 5>>) = <<3, 1, 2>>
    /\ ops[1][5].view[2].item = 14
    /\ ops[1][5].view[1].sort_epoch < ops[1][5].view[2].sort_epoch
    /\ ops[1][5].view[2].sort_epoch < ops[1][5].view[3].sort_epoch
    /\ \E s \in 1..MaxSegs :
         /\ seg[s].st = "live" /\ seg[s].kind = "record" /\ seg[s].item = 14
         /\ \A r \in 1..MaxSegs :
              (seg[r].st = "live" /\ seg[r].kind = "record") =>
                seg[r].write_epoch <= seg[s].write_epoch

-----------------------------------------------------------------------------
(* The segment pointers move along the chain *)

\* C31: a segment's next is written once, from NULL to a successor, and never
\* again; every step that changes self->segments replaces exactly one of
\* enqueue_segment and dequeue_segment by the next of the segment it held, so
\* a pointer never skips a segment and never returns to one it has left.
C31_ForwardOneLink ==
    [][/\ \A s \in 1..MaxSegs :
            seg'[s].next # seg[s].next =>
              (seg[s].st # "none" /\ seg[s].next = NULL /\ seg'[s].next # NULL)
       /\ segments' # segments =>
            /\ \/ /\ segments'.deq = segments.deq
                  /\ segments'.enq = seg[segments.enq].next
               \/ /\ segments'.enq = segments.enq
                  /\ segments'.deq = seg[segments.deq].next
            /\ segments'.enq # NULL /\ segments'.deq # NULL
            /\ segments.enq \notin Chain(segments'.enq) \ {segments'.enq}
            /\ segments.deq \notin Chain(segments'.deq) \ {segments'.deq}]_vars

\* both pointers have left the first segment, the enqueue pointer by two links
C31_Witness ==
    /\ seg[1].next # NULL
    /\ seg[seg[1].next].next # NULL
    /\ segments.enq = seg[seg[1].next].next
    /\ segments.deq = seg[1].next
    /\ seg[1].st \in {"retired", "freed"}

-----------------------------------------------------------------------------
(* The enqueuer that loses the CAS on next *)

\* thread t holds segment s in one of its locals
Holds(t, s) ==
    s \in {loc[t].segment, loc[t].new_segment, loc[t].segments.enq, loc[t].segments.deq,
           loc[t].candidate_segments.enq, loc[t].candidate_segments.deq}

\* t's running enqueue has its item in place and is on a return path
Placed(t) == pc[t] \in {"e_sub_help", "e_end_op", "e_len"}

\* C32: a successor that lost the CAS on next is freed once and no thread, no
\* next field and neither queue pointer refers to it; the enqueuer that lost
\* has, when it returns, its item in exactly one cell of the queue; the
\* enqueuer that won has its item in cell 0 of the successor it installed and
\* in no other cell.
C32_LoserAdopts ==
    /\ \A s \in 1..MaxSegs :
         Discarded(s) => /\ seg[s].frees = 1
                         /\ s \notin {segments.enq, segments.deq}
                         /\ \A t \in Threads : ~Holds(t, s)
    /\ \A t \in Threads :
         (Placed(t) /\ loc[t].need_to_enqueue)
           => Cardinality(CellsHolding(loc[t].item)) = 1
    /\ \A t \in Threads :
         ((Placed(t) \/ pc[t] = "e_swing") /\ ~loc[t].need_to_enqueue
          /\ loc[t].new_segment # NULL)
           => /\ seg[loc[t].segment].next = loc[t].new_segment
              /\ CellsHolding(loc[t].item) = {<<loc[t].new_segment, 0>>}

-----------------------------------------------------------------------------
(* The size of a successor segment *)

\* C33: an enqueuer that decides the size of the successor of its segment S
\* takes twice S.size when it has just requested help or reads help_needed > 0,
\* and default_segment_size otherwise; the successor it allocates has that
\* many cells; so every segment's size is default_segment_size times a power
\* of two.
C33_SuccessorSize ==
    /\ [][\A t \in Threads :
            (pc[t] \in {"e_reread_help", "e_read_help"} /\ pc'[t] = "e_install") =>
              loc'[t].new_size =
                  IF pc[t] = "e_reread_help" \/ help_needed > 0
                  THEN 2 * seg[loc[t].segment].size
                  ELSE default_segment_size]_vars
    /\ [][\A n \in 1..MaxSegs :
            (seg[n].st = "none" /\ seg'[n].st # "none") =>
              \E t \in Threads :
                /\ pc[t] = "e_install" /\ pc'[t] = "e_swing"
                /\ seg'[n].size = loc[t].new_size
                /\ DOMAIN seg'[n].cells = 0..(loc[t].new_size - 1)]_vars
    /\ [](\A s \in 1..MaxSegs :
            seg[s].st # "none" =>
              \E k \in 0..MaxSegs : seg[s].size = default_segment_size * 2 ^ k)

\* a doubled segment (a helped enqueuer allocated it) whose successor is of the
\* default size again, and whose successor's successor was doubled because
\* help_needed was read above zero by an enqueuer that had not asked itself
C33_Witness ==
    \E s \in 1..MaxSegs :
      /\ seg[s].st # "none" /\ seg[s].size = 2 * default_segment_size
      /\ seg[s].next # NULL
      /\ seg[seg[s].next].size = default_segment_size
      /\ \E t \in Threads :
           /\ pc[t] = "e_install" /\ ~loc[t].need_help
           /\ loc[t].new_size = 2 * seg[loc[t].segment].size

-----------------------------------------------------------------------------
(* help_needed against the calls that asked for help *)

\* thread t is inside queue_enqueue
InEnqueue(t) == Len(ops[t]) > 0 /\ LastOp(t).kind = "enq" /\ ~LastOp(t).done

\* t's running enqueue has need_help set and has not yet passed its
\* atomic_fetch_sub on help_needed
AsksHelp(t) == InEnqueue(t) /\ loc[t].need_help /\ pc[t] \notin {"e_end_op", "e_len"}

-----------------------------------------------------------------------------
(* Failed cell CASes of one enqueue in one segment *)

\* floor(log2(n)) for n >= 1
Log2Floor(n) == CHOOSE k \in 0..30 : 2 ^ k <= n /\ n < 2 ^ (k + 1)

\* C35: a running enqueue has failed at most floor(log2(n)) + 1 cell CASes in
\* its current segment of n cells, and it attempts a cell CAS only at an index
\* below n: with an index of n or more it goes on to the segment's successor.
C35_BoundedLosses ==
    \A t \in Threads :
      (InEnqueue(t) /\ loc[t].segment # NULL) =>
        /\ loc[t].losses <= Log2Floor(seg[loc[t].segment].size) + 1
        /\ pc[t] = "e_cell_cas" => loc[t].cur_ix < seg[loc[t].segment].size

-----------------------------------------------------------------------------
(* The queue with the slot stores of mmm_start_basic_op as plain stores *)

\* mmm_start_basic_op as the build may order it: mmm_reservations is a plain
\* array, so the store of the loaded epoch need not have reached shared memory
\* when the caller's next load executes
ReservePlain(t) ==
    /\ pc[t] \in {"e_reserve", "d_reserve"}
    /\ CanStore(t)
    /\ store_buffer' = SlotStore(t, Reservation(loc[t].read_epoch))
    /\ pc' = [pc EXCEPT ![t] = IF pc[t] = "e_reserve" THEN "e_segments" ELSE "d_segments"]
    /\ UNCHANGED <<cfg, store_current, seg, segments, help_needed, len, default_segment_size,
                   mmm_epoch, mmm_reservations, mmm_retire_list, mmm_retire_ctr, loc, ops,
                   uaf, oob, cleaned>>

\* one step of thread t: the loads of a call may execute while the caller's
\* slot store is outstanding; its read-modify-write operations, its mmm_end_op
\* and its scans execute once the store has reached shared memory
PlainStep(t) ==
    \/ ReservePlain(t)
    \/ SlotFlush(t)
    \/ /\ pc[t] \in {"idle", "e_segments", "d_segments", "d_read_deq", "d_read_enq", "d_next"}
       /\ Step(t)
    \/ /\ pc[t] \notin {"idle", "e_reserve", "d_reserve", "e_segments", "d_segments",
                        "d_read_deq", "d_read_enq", "d_next"}
       /\ store_buffer[t] = <<>>
       /\ Step(t)

PlainSpec == Init /\ [][(\E t \in Threads : PlainStep(t)) \/ QueueCleanup]_vars

\* C36: a queue call reads self->segments for the first time only when its
\* caller's reservation is in the caller's slot of mmm_reservations, and
\* between calls the caller's slot is MMM_EPOCH_UNRESERVED.
C36_ReservationBrackets ==
    /\ [][\A t \in Threads :
            (pc[t] \in {"e_segments", "d_segments"} /\ pc'[t] # pc[t]) =>
              /\ mmm_reservations[t] # MMM_EPOCH_UNRESERVED
              /\ mmm_reservations[t] = loc[t].read_epoch]_vars
    /\ [](\A t \in Threads :
            pc[t] = "idle" => mmm_reservations[t] = MMM_EPOCH_UNRESERVED)

-----------------------------------------------------------------------------
(* The write that loses the CAS on a bucket's head *)

\* the writes whose install lost the CAS on the head of a bucket that was not
\* frozen
Losers == {c \in Calls : Call(c).lost}

\* record r is the head of a bucket, the next of a record, or held by a thread
Referenced(r) ==
    \/ \E s \in 1..MaxSegs :
         \/ seg[s].st # "none" /\ seg[s].kind = "store"
            /\ \E i \in DOMAIN seg[s].hist_buckets : seg[s].hist_buckets[i].head = r
         \/ seg[s].st # "none" /\ seg[s].kind = "record" /\ seg[s].next = r
    \/ \E t \in Threads : r \in {loc[t].ptr, loc[t].head, loc[t].old}
    \/ \E t \in Threads : \E k \in 1..Len(mmm_retire_list[t]) : mmm_retire_list[t][k] = r

\* the get g returned what the write w left in the table
Reads(g, w) ==
    IF Call(w).kind = "put" THEN Call(g).found /\ Call(g).ret = Call(w).item
    ELSE ~Call(g).found

-----------------------------------------------------------------------------
(* hatrack_quicksort_cmp and the offset holder, applied to chosen words *)

\* faulty variant of sign_ext_off: the flag is cleared and bit 62 is not extended
sign_ext_off_clear(off) == [off EXCEPT ![4] = @ % 32768]

\* x = off & OFF_HOLDER_MASK; return (x ^ OFF_XOR_MASK) - OFF_XOR_MASK, with
\* OFF_HOLDER_FLAG = 2^63 and OFF_XOR_MASK = 2^62 (bits 15 and 14 of the top limb)
sign_ext_off(off) ==
    LET x == [off EXCEPT ![4] = @ % 32768]
        flipped == [x EXCEPT ![4] = IF @ >= 16384 THEN @ - 16384 ELSE @ + 16384]
    IN AddSub64(flipped, <<0, 0, 0, 0>>, <<0, 0, 0, 16384>>)

\* (ptr == 0UL) ? 0UL : ((ptr - holder) | OFF_HOLDER_FLAG)
ptr2off(ptr, holder) ==
    IF ptr = <<0, 0, 0, 0>> THEN <<0, 0, 0, 0>>
    ELSE [AddSub64(ptr, <<0, 0, 0, 0>>, holder) EXCEPT ![4] = (@ % 32768) + 32768]

\* (off & OFF_HOLDER_FLAG) ? (sign_ext_off(off) + holder) : off
off2ptr(off, holder) ==
    IF off[4] >= 32768 THEN AddSub64(sign_ext_off(off), holder, <<0, 0, 0, 0>>) ELSE off

\* low values of a limb run from 0 to MaxLow
MaxLow == 1

\* the words compared are epochs around 0, 2^31 and 2^32; the words encoded
\* are addresses around 0, 2^62, 2^63 and 2^64, NULL among them
PureInit ==
    /\ cfg \in {[fn |-> "cmp", a |-> <<l1, l2, l3, 0>>, b |-> <<m1, m2, m3, 0>>] :
                  l1 \in (0..MaxLow) \cup {65535}, l2 \in {0, 32767, 32768, 65535},
                  l3 \in 0..MaxLow,
                  m1 \in (0..MaxLow) \cup {65535}, m2 \in {0, 32767, 32768, 65535},
                  m3 \in 0..MaxLow}
          \cup {[fn |-> "off", a |-> <<l1, l2, 0, l4>>, b |-> <<m1, m2, 0, m4>>] :
                  l1 \in 0..MaxLow, l2 \in {0, 65535},
                  l4 \in {0, 16383, 16384, 32767, 32768, 49152, 65535},
                  m1 \in 0..MaxLow, m2 \in {0, 65535},
                  m4 \in {0, 16383, 16384, 32767, 32768, 49152, 65535}}
    /\ default_segment_size = 0
    /\ seg = [s \in 1..MaxSegs |-> NoSegment]
    /\ segments = [enq |-> NULL, deq |-> NULL]
    /\ help_needed = 0
    /\ len = 0
    /\ mmm_epoch = MMM_EPOCH_FIRST
    /\ mmm_reservations = [t \in Threads |-> MMM_EPOCH_UNRESERVED]
    /\ store_buffer = [t \in Threads |-> <<>>]
    /\ mmm_retire_list = [t \in Threads |-> <<>>]
    /\ mmm_retire_ctr = [t \in Threads |-> 0]
    /\ pc = [t \in Threads |-> "idle"]
    /\ loc = [t \in Threads |-> Loc0]
    /\ ops = [t \in Threads |-> <<>>]
    /\ uaf = FALSE
    /\ oob = FALSE
    /\ cleaned = FALSE
    /\ store_current = NULL

\* qsort calls hatrack_quicksort_cmp on two view entries
CmpCall ==
    /\ cfg.fn = "cmp"
    /\ ops[1] = <<>>
    /\ ops' = [ops EXCEPT ![1] =
                 <<[kind |-> "cmp",
                    ret |-> hatrack_quicksort_cmp([sort_epoch |-> cfg.a],
                                                  [sort_epoch |-> cfg.b])]>>]
    /\ UNCHANGED <<cfg, seg, segments, help_needed, len, default_segment_size, mmm_epoch,
                   mmm_reservations, store_buffer, mmm_retire_list, mmm_retire_ctr, pc, loc,
                   uaf, oob, cleaned, store_current>>

\* holder = ptr2off(ptr, &holder), as off_holder_test.c stores its links
Ptr2OffCall ==
    /\ cfg.fn = "off"
    /\ ops[1] = <<>>
    /\ ops' = [ops EXCEPT ![1] = <<[kind |-> "ptr2off", ret |-> ptr2off(cfg.a, cfg.b)]>>]
    /\ UNCHANGED <<cfg, seg, segments, help_needed, len, default_segment_size, mmm_epoch,
                   mmm_reservations, store_buffer, mmm_retire_list, mmm_retire_ctr, pc, loc,
                   uaf, oob, cleaned, store_current>>

\* ptr = off2ptr(holder, &holder, ptr) on the offset stored before
Off2PtrCall ==
    /\ cfg.fn = "off"
    /\ Len(ops[1]) = 1
    /\ ops' = [ops EXCEPT ![1] =
                 Append(@, [kind |-> "off2ptr", ret |-> off2ptr(ops[1][1].ret, cfg.b)])]
    /\ UNCHANGED <<cfg, seg, segments, help_needed, len, default_segment_size, mmm_epoch,
                   mmm_reservations, store_buffer, mmm_retire_list, mmm_retire_ctr, pc, loc,
                   uaf, oob, cleaned, store_current>>

PureSpec == PureInit /\ [][CmpCall \/ Ptr2OffCall \/ Off2PtrCall]_vars

-----------------------------------------------------------------------------
(* The comparison of two sort epochs *)

\* a < b as unsigned 64-bit words
Less64(a, b) ==
    \E i \in 1..4 : a[i] < b[i] /\ \A j \in (i + 1)..4 : a[j] = b[j]

\* C38: the result of hatrack_quicksort_cmp is negative, zero or positive
\* exactly when the first entry's sort_epoch is less than, equal to or greater
\* than the second's.
C38_CmpOrders ==
    (cfg.fn = "cmp" /\ ops[1] # <<>>) =>
      LET r == ops[1][1].ret IN
      /\ r < 0 <=> Less64(cfg.a, cfg.b)
      /\ r = 0 <=> cfg.a = cfg.b
      /\ r > 0 <=> Less64(cfg.b, cfg.a)

-----------------------------------------------------------------------------
(* The offset holder's round trip *)

\* the difference ptr - holder lies in [-2^62, 2^62): bits 63 and 62 agree
InReach(ptr, holder) ==
    LET d == AddSub64(ptr, <<0, 0, 0, 0>>, holder) IN d[4] < 16384 \/ d[4] >= 49152

\* the pointer was encoded against the holder and the offset decoded again
Decoded == cfg.fn = "off" /\ Len(ops[1]) = 2

\* C39 as stated: for every pointer and holder, decoding the encoded pointer
\* gives the pointer; NULL encodes to 0 and 0 decodes to NULL; a pointer that
\* is not NULL never encodes to 0.
C39_RoundTripAll ==
    Decoded =>
      /\ ops[1][2].ret = cfg.a
      /\ cfg.a = <<0, 0, 0, 0>> <=> ops[1][1].ret = <<0, 0, 0, 0>>

\* C39, amended: the round trip holds for a pointer within 2^62 bytes of the
\* holder (ptr - holder in [-2^62, 2^62)) and for NULL; NULL encodes to 0 and
\* 0 decodes to NULL; a pointer that is not NULL, the holder's own address
\* included, encodes to an offset with OFF_HOLDER_FLAG set, so never to 0.
C39_RoundTrip ==
    Decoded =>
      /\ (cfg.a = <<0, 0, 0, 0>> \/ InReach(cfg.a, cfg.b)) => ops[1][2].ret = cfg.a
      /\ cfg.a = <<0, 0, 0, 0>> =>
           (ops[1][1].ret = <<0, 0, 0, 0>> /\ ops[1][2].ret = <<0, 0, 0, 0>>)
      /\ cfg.a # <<0, 0, 0, 0>> =>
           (ops[1][1].ret[4] >= 32768 /\ ops[1][1].ret # <<0, 0, 0, 0>>)
      /\ (cfg.a # <<0, 0, 0, 0>> /\ ~InReach(cfg.a, cfg.b)) => ops[1][2].ret # cfg.a

\* a pointer below its holder (a negative offset, with a borrow through the
\* limbs) came back from the round trip
C39_Witness ==
    /\ Decoded
    /\ cfg.a = <<1, 0, 0, 16383>> /\ cfg.b = <<0, 65535, 0, 16384>>
    /\ ops[1][1].ret[4] >= 49152
    /\ ops[1][2].ret = cfg.a

\* ---------------------------------------------------------------------------
\* C40
\* ---------------------------------------------------------------------------

\* the record headers, without the bookkeeping of who is guarded by a
\* reservation
Headers(s) == [i \in 1..MaxSegs |-> [s[i] EXCEPT !.guards = {}]]

\* C40: mmm_start_basic_op, mmm_start_linearized_op and mmm_end_op write only
\* mmm_reservations[mmm_mytid]: a step in which the store into a thread's slot
\* is issued or reaches memory changes no other thread's slot and no other
\* thread's outstanding store, and leaves the global epoch and every record
\* header as they were
C40_OwnSlotOnly ==
    [][\A t \in Threads :
          (store_buffer'[t] # store_buffer[t] \/ mmm_reservations'[t] # mmm_reservations[t])
          => /\ \A u \in Threads \ {t} :
                   /\ store_buffer'[u] = store_buffer[u]
                   /\ mmm_reservations'[u] = mmm_reservations[u]
             /\ mmm_epoch' = mmm_epoch
             /\ Headers(seg') = Headers(seg)]_vars

\* one thread has ended an operation and its slot is back to unreserved while
\* another thread's reservation stands in its own slot and the epoch has moved
C40_Witness ==
    \E t, u \in Threads :
        /\ t # u
        /\ \E i \in 1..Len(ops[t]) : ops[t][i].done
        /\ store_buffer[t] = <<>>
        /\ mmm_reservations[t] = MMM_EPOCH_UNRESERVED
        /\ store_buffer[u] = <<>>
        /\ mmm_reservations[u] # MMM_EPOCH_UNRESERVED
        /\ mmm_epoch > mmm_reservations[u]

====
